---- MODULE Spec2Model ----
(***************************************************************************)
(* Document wizard of yss1235-why/photocopy: the upload queue              *)
(* (Step1Upload.tsx, fileValidation.ts), batch processing                  *)
(* (Step2Processing.tsx), the ID-card pairing stage (Step3Pairing.tsx)     *)
(* with the pairability predicate of documentService.ts and the hand-over  *)
(* to the wizard page (Index.tsx), the wizard's navigation with the late   *)
(* callbacks of its steps, the print layout (Step5PrintSetup.tsx) and the  *)
(* print job (Step6Confirmation.tsx); and, of the passport photo wizard,   *)
(* the crop stage (CropTool.tsx, Step2Crop.tsx) and the ApiService with    *)
(* its Cloudinary fallback.  Each component has a specification of its     *)
(* own, in which the other components are not rendered.                    *)
(*                                                                         *)
(* Strings that the code inspects (detectedType) are sequences of tokens,  *)
(* so that includes() and replace() are computed, not assumed.  Numbers    *)
(* that are fractions are pairs of numerator and denominator; the zoom     *)
(* carries the rounding error of its double as well.                       *)
(***************************************************************************)
EXTENDS Integers, Sequences, FiniteSets, TLC

VARIABLES
    cleanedDocuments,    \* Step3Pairing prop: the classified documents
    pairedIDs,           \* useState<PairedIDCard[]>
    unpairedIDs,         \* useState<UnpairedIDCard[]>
    singleDocs,          \* useState<CleanedDocument[]>
    selectedForPairing,  \* useState<{front?, back?}>; "" is undefined
    isPairing,           \* useState(false): the spinner replaces the UI
    pc,                  \* position of performAutoPairing
    timerPending,        \* the 500 ms setTimeout of the no-ID-card path
    autoPairResult,      \* the resolved value of apiService.autoPairIDCards
    now,                 \* Date.now()
    toast,               \* title of the last toast shown
    lastOp,              \* the handler that ran last, with its arguments
    currentStep,         \* Index: the wizard step rendered
    wizardPaired,        \* Index: pairedIDs state
    wizardSingles,       \* Index: singleDocuments state
    completeCalls,       \* number of onPairingComplete invocations
    roundTrip,           \* observer of unpair followed by re-selecting the sides
    cpArgs,              \* arguments of a direct canPair call
    cpResult,            \* its results: <<called, canPair(f,b), canPair(b,f)>>
    callArgs,            \* arguments of a direct call of a pure function
    callResult,          \* what the call returned; <<>> before the call
    printPaired,         \* Step5PrintSetup prop: pairedIDs.length
    printSingles,        \* Step5PrintSetup prop: singleDocuments.length
    printConfig,         \* useState<PrintConfig>
    isGeneratingPreview, \* useState(false)
    previewCalls,        \* generatePrintPreview requests awaiting their response
    previewsIssued,      \* number of preview requests issued so far
    setupPc,             \* "unmounted" until the mount effect has run
    setupToast,          \* title of the last toast of Step5PrintSetup
    continuedWith,       \* the PrintConfig handed to onContinue, if any
    uploadQueue,         \* Step1Upload: useState<UploadedDocument[]>
    pendingSelections,   \* handleFileSelect calls awaiting prepareDocumentsForUpload
    uploadToast,         \* title of the last toast of Step1Upload
    uploadOp,            \* the Step1Upload handler that ran last, with its input
    nextDocId,           \* generateId: the next fresh document id
    uploadOps,           \* number of user operations on Step1Upload so far
    layout,              \* CropTool: the sizes the browser laid the elements out with
    zoom,                \* useState(1), a double
    position,            \* useState({x: 0, y: 0}), in pixels
    isDragging,          \* useState(false)
    dragStart,           \* useState({x: 0, y: 0})
    imageLoaded,         \* useState(false)
    naturalDimensions,   \* useState({width: 0, height: 0})
    cropData,            \* Step2Crop: useState<CropData | null>(null)
    cropToast,           \* title of the last toast of Step2Crop
    cropCompleted,       \* the CropData handed to onCropComplete, if any
    uploadedDocuments,   \* Step2Processing prop: the ids of the uploaded documents
    processingDocs,      \* useState<ProcessingDocument[]>
    cleanedDocs,         \* useState<CleanedDocument[]>
    cleaned,             \* processDocuments: its local list
    overallProgress,     \* useState(0), a fraction
    stats,               \* useState<DocumentStats>
    procPc,              \* position of processDocuments
    procIndex,           \* processDocuments: the loop index i, counted from 1
    procToast,           \* title of the last toast of Step2Processing
    procTimer,           \* the 1 s setTimeout is pending
    processedWith,       \* the list handed to onProcessingComplete, if called
    lateCallbacks,       \* Index: the loops and timers of unmounted or mounted steps still to run
    fired,               \* the late callback that ran in the last step, if one did
    navigations,         \* number of clicks on Back, Continue and Start New Batch so far
    printStatus,         \* Step6Confirmation: useState('preparing')
    printError,          \* useState<string | null>(null); "" is null
    printJob,            \* useState<PrintJob | null>(null)
    printPc,             \* position of handlePrint
    pollInterval,        \* the setInterval of pollPrintStatus is active
    pollsInFlight,       \* getPrintJobStatus requests awaiting their response
    printRun,            \* number of handlePrint calls so far
    pollTicks,           \* number of interval ticks so far
    printLog,            \* what the current handlePrint call went through
    printToast,          \* title of the last toast of Step6Confirmation
    cloudinaryEnabled,   \* ApiService: USE_CLOUDINARY
    cloudinaryFallbackCount, \* ApiService: private cloudinaryFallbackCount = 0
    cloudinaryCalls,     \* cloudinaryService calls awaiting their result
    pythonCalls,         \* requests to the Python backend awaiting their result
    apiCalls,            \* number of uploadPhoto and processPhoto calls so far
    apiOp                \* the ApiService step that ran last

pairingVars == <<cleanedDocuments, pairedIDs, unpairedIDs, singleDocs,
                 selectedForPairing, isPairing, pc, timerPending,
                 autoPairResult, now, toast, lastOp, currentStep,
                 wizardPaired, wizardSingles, completeCalls, roundTrip>>
cpVars == <<cpArgs, cpResult>>
callVars == <<callArgs, callResult>>
setupVars == <<printPaired, printSingles, printConfig, isGeneratingPreview,
               previewCalls, previewsIssued, setupPc, setupToast, continuedWith>>
uploadVars == <<uploadQueue, pendingSelections, uploadToast, uploadOp, nextDocId,
                uploadOps>>
cropVars == <<layout, zoom, position, isDragging, dragStart, imageLoaded,
              naturalDimensions, cropData, cropToast, cropCompleted>>
procVars == <<uploadedDocuments, processingDocs, cleanedDocs, cleaned,
              overallProgress, stats, procPc, procIndex, procToast, procTimer,
              processedWith>>
wizardVars == <<lateCallbacks, fired, navigations>>
printVars == <<printStatus, printError, printJob, printPc, pollInterval,
               pollsInFlight, printRun, pollTicks, printLog, printToast>>
cloudVars == <<cloudinaryEnabled, cloudinaryFallbackCount, cloudinaryCalls,
               pythonCalls, apiCalls, apiOp>>
\* the components other than the pairing stage
otherVars == <<callVars, setupVars, uploadVars, cropVars, procVars, wizardVars,
               printVars, cloudVars>>
\* what a step of one component leaves alone
notCall == <<pairingVars, cpVars, setupVars, uploadVars, cropVars, procVars,
    wizardVars, printVars, cloudVars>>
notSetup == <<pairingVars, cpVars, callVars, uploadVars, cropVars, procVars,
    wizardVars, printVars, cloudVars>>
notUpload == <<pairingVars, cpVars, callVars, setupVars, cropVars, procVars,
    wizardVars, printVars, cloudVars>>
notCrop == <<pairingVars, cpVars, callVars, setupVars, uploadVars, procVars,
    wizardVars, printVars, cloudVars>>
notProc == <<pairingVars, cpVars, callVars, setupVars, uploadVars, cropVars,
    wizardVars, printVars, cloudVars>>
notPrint == <<pairingVars, cpVars, callVars, setupVars, uploadVars, cropVars, procVars,
    wizardVars, cloudVars>>
notCloud == <<pairingVars, cpVars, callVars, setupVars, uploadVars, cropVars, procVars,
    wizardVars, printVars>>
\* what a step of the wizard leaves alone: it writes the state of Index
\* (currentStep, uploadedDocuments, cleanedDocuments, wizardPaired,
\* wizardSingles, continuedWith) and counts the calls of onPairingComplete
notWizard == <<pairedIDs, unpairedIDs, singleDocs, selectedForPairing, isPairing, pc,
    timerPending, autoPairResult, now, toast, lastOp, roundTrip, cpVars, callVars,
    printPaired, printSingles, printConfig, isGeneratingPreview, previewCalls,
    previewsIssued, setupPc, setupToast, uploadVars, cropVars, processingDocs,
    cleanedDocs, cleaned, overallProgress, stats, procPc, procIndex, procToast,
    procTimer, processedWith, printVars, cloudVars>>
vars == <<pairingVars, cpVars, otherVars>>

-----------------------------------------------------------------------------
(* Bounds *)

\* Date.now() takes the values 0..MaxClock
MaxClock == 1

\* at most MaxBatch of the documents of Upload are in a batch
MaxBatch == 4

\* Step5PrintSetup is given 0..MaxCount paired IDs and 0..MaxCount single documents
MaxCount == 3

\* a direct call of the page computation adds 0..MaxMore to each count
MaxMore == 2

\* Step5PrintSetup issues at most MaxPreviews preview requests
MaxPreviews == 3

\* a selection holds at most MaxIncoming files
MaxIncoming == 2

\* file sizes and queue lengths lie up to Margin below and above their limit
Margin == 3

\* the user performs at most MaxUploadOps operations on the upload stage
MaxUploadOps == 2

\* the image is dragged at most MaxPan pixels from the centre in each direction
MaxPan == 100

\* Step2Processing is given 1..MaxDocs uploaded documents
MaxDocs == 4

-----------------------------------------------------------------------------
(* types/index.ts: DocumentType, as token sequences *)

IDCardType ==
    { <<"aadhaar", "_front">>, <<"aadhaar", "_back">>,
      <<"driving_license", "_front">>, <<"driving_license", "_back">>,
      <<"voter_id", "_front">>, <<"voter_id", "_back">> }

SingleDocumentType ==
    { <<"pan_card">>, <<"passport">>, <<"bank_statement">>,
      <<"certificate">>, <<"generic">> }

DocumentType == IDCardType \cup SingleDocumentType

DocumentCategory == {"id_card", "single_document"}

(* String.prototype.includes for a token *)
Includes(s, tok) == \E i \in 1..Len(s) : s[i] = tok

(* String.prototype.replace(tok, ''): removes the first occurrence only *)
Replace(s, tok) ==
    IF Includes(s, tok)
    THEN LET k == CHOOSE i \in 1..Len(s) :
                     s[i] = tok /\ \A j \in 1..(i-1) : s[j] # tok
         IN  [i \in 1..(Len(s)-1) |-> IF i < k THEN s[i] ELSE s[i+1]]
    ELSE s

categorizeDocument(detectedType) ==
    IF detectedType \in IDCardType THEN "id_card" ELSE "single_document"

getDocumentSide(detectedType) ==
    IF Includes(detectedType, "_front") THEN "front"
    ELSE IF Includes(detectedType, "_back") THEN "back"
    ELSE "null"

(* A seeded fault: the sides are checked without their order. *)
canPairUnordered(frontDoc, backDoc) ==
    IF frontDoc.detectedCategory # "id_card" \/ backDoc.detectedCategory # "id_card"
    THEN FALSE
    ELSE LET frontSide == getDocumentSide(frontDoc.detectedType)
             backSide  == getDocumentSide(backDoc.detectedType)
         IN  IF frontSide = "null" \/ backSide = "null" \/ frontSide = backSide
             THEN FALSE
             ELSE Replace(Replace(frontDoc.detectedType, "_front"), "_back")
                  = Replace(Replace(backDoc.detectedType, "_front"), "_back")

(* A seeded fault: the base types are not compared. *)
canPairAnyBase(frontDoc, backDoc) ==
    IF frontDoc.detectedCategory # "id_card" \/ backDoc.detectedCategory # "id_card"
    THEN FALSE
    ELSE getDocumentSide(frontDoc.detectedType) = "front"
         /\ getDocumentSide(backDoc.detectedType) = "back"

canPair(frontDoc, backDoc) ==
    IF frontDoc.detectedCategory # "id_card" \/ backDoc.detectedCategory # "id_card"
    THEN FALSE
    ELSE LET frontSide == getDocumentSide(frontDoc.detectedType)
             backSide  == getDocumentSide(backDoc.detectedType)
         IN  IF frontSide # "front" \/ backSide # "back"
             THEN FALSE
             ELSE LET frontBase == Replace(frontDoc.detectedType, "_front")
                      backBase  == Replace(backDoc.detectedType, "_back")
                  IN  frontBase = backBase

filterByCategory(documents, category) ==
    SelectSeq(documents, LAMBDA doc : doc.detectedCategory = category)

-----------------------------------------------------------------------------
(* Reference notions the claims are stated in, independent of canPair *)

\* the type with a trailing _front / _back removed
BaseType(t) ==
    IF Len(t) > 0 /\ t[Len(t)] \in {"_front", "_back"}
    THEN SubSeq(t, 1, Len(t) - 1)
    ELSE t

\* the side named by the trailing suffix
SideOf(t) ==
    IF Len(t) > 0 /\ t[Len(t)] = "_front" THEN "front"
    ELSE IF Len(t) > 0 /\ t[Len(t)] = "_back" THEN "back"
    ELSE "none"

-----------------------------------------------------------------------------
(* The classified documents handed to the pairing stage *)

\* the documents a user may have uploaded, in upload order
Upload ==
    << <<"aadhaar", "_front">>, <<"aadhaar", "_back">>,
       <<"aadhaar", "_front">>, <<"aadhaar", "_back">>,
       <<"voter_id", "_back">>, <<"pan_card">> >>

DocIds == <<"d1", "d2", "d3", "d4", "d5", "d6">>

\* Step2Processing builds each CleanedDocument from the classifier's answer;
\* the category is computed from the type by categorizeDocument
CleanedDoc(i) ==
    [id |-> DocIds[i],
     detectedType |-> Upload[i],
     detectedCategory |-> categorizeDocument(Upload[i])]

RECURSIVE DocsOf(_, _)
DocsOf(S, i) ==
    IF i > Len(Upload) THEN <<>>
    ELSE (IF i \in S THEN <<CleanedDoc(i)>> ELSE <<>>) \o DocsOf(S, i + 1)

Batches ==
    { DocsOf(S, 1) : S \in { T \in SUBSET (1..Len(Upload)) : Cardinality(T) <= MaxBatch } }

IdsOf(documents) == { documents[i].id : i \in 1..Len(documents) }

-----------------------------------------------------------------------------
(* The answer of POST /pair (apiService.autoPairIDCards).  The matcher is  *)
(* external: it answers with a failure, or with pairs of matching sides    *)
(* and the remaining cards as candidates.  Its answer embeds the documents *)
(* and may name a document by an id that was not in the request.           *)

AutoConfidences == {87}

\* the documents of an answer that names its last document by an id that was
\* not in the request
Misnamed(idCards) ==
    [i \in 1..Len(idCards) |->
        IF i = Len(idCards) THEN [idCards[i] EXCEPT !.id = "dX"] ELSE idCards[i]]

MatcherPairs(pool) ==
    { p \in (1..Len(pool)) \X (1..Len(pool)) :
        /\ SideOf(pool[p[1]].detectedType) = "front"
        /\ SideOf(pool[p[2]].detectedType) = "back"
        /\ BaseType(pool[p[1]].detectedType) = BaseType(pool[p[2]].detectedType) }

Matchings(pool) ==
    { M \in SUBSET MatcherPairs(pool) :
        \A p, q \in M : p # q => (p[1] # q[1] /\ p[2] # q[2]) }

Matched(M) == { p[1] : p \in M } \cup { p[2] : p \in M }

RECURSIVE AutoPaired(_, _, _, _)
AutoPaired(pool, M, conf, i) ==
    IF i > Len(pool) THEN <<>>
    ELSE (IF \E p \in M : p[1] = i
          THEN LET p == CHOOSE q \in M : q[1] = i
               IN  << [id |-> <<"auto", i>>,
                       frontDoc |-> pool[p[1]],
                       backDoc |-> pool[p[2]],
                       confidence |-> conf,
                       pairingMethod |-> "auto",
                       status |-> "paired"] >>
          ELSE <<>>) \o AutoPaired(pool, M, conf, i + 1)

RECURSIVE AutoUnpaired(_, _, _)
AutoUnpaired(pool, M, i) ==
    IF i > Len(pool) THEN <<>>
    ELSE (IF i \notin Matched(M)
          THEN << [document |-> pool[i],
                   side |-> SideOf(pool[i].detectedType),
                   status |-> "unpaired",
                   reason |-> "low_confidence"] >>
          ELSE <<>>) \o AutoUnpaired(pool, M, i + 1)

NoResult == [state |-> "none", paired |-> <<>>, unpaired |-> <<>>]
FailedResult == [state |-> "failure", paired |-> <<>>, unpaired |-> <<>>]

PairingResponses(idCards) ==
    {FailedResult} \cup
    UNION { { [state |-> "success",
               paired |-> AutoPaired(pool, M, conf, 1),
               unpaired |-> AutoUnpaired(pool, M, 1)] :
                 M \in Matchings(pool), conf \in AutoConfidences } :
            pool \in {idCards, Misnamed(idCards)} }

-----------------------------------------------------------------------------
(* Step3Pairing and the part of Index it calls back into *)

totalSteps == 6

NoDoc == [id |-> "", detectedType |-> <<>>, detectedCategory |-> ""]
NoPair ==
    [id |-> <<"none", 0>>, frontDoc |-> NoDoc, backDoc |-> NoDoc,
     confidence |-> 0, pairingMethod |-> "", status |-> ""]
NoSelection == [front |-> "", back |-> ""]
NoRoundTrip == [phase |-> 0, pair |-> NoPair, before |-> <<>>, backPending |-> FALSE]
Op(name, cardId, side, pairId) ==
    [name |-> name, cardId |-> cardId, side |-> side, pairId |-> pairId]

\* Array.prototype.find on the candidates: the first index with that document, or 0
FindCard(cards, docId) ==
    IF \E i \in 1..Len(cards) : cards[i].document.id = docId
    THEN CHOOSE i \in 1..Len(cards) :
            cards[i].document.id = docId
            /\ \A j \in 1..(i-1) : cards[j].document.id # docId
    ELSE 0

\* Array.prototype.find on the pairs: the first index with that id, or 0
FindPair(pairs, pairId) ==
    IF \E i \in 1..Len(pairs) : pairs[i].id = pairId
    THEN CHOOSE i \in 1..Len(pairs) :
            pairs[i].id = pairId /\ \A j \in 1..(i-1) : pairs[j].id # pairId
    ELSE 0

\* the controls of the stage are rendered and react to clicks
\* Step5PrintSetup.tsx 25-31: the state a not yet mounted component holds
LayoutType == {"id_layout", "document_layout"}
InitialPrintConfig ==
    [layoutType |-> "document_layout", paperSize |-> "a4", totalPages |-> 0,
     layoutPreview |-> <<>>]
NoConfig ==
    [layoutType |-> "", paperSize |-> "", totalPages |-> 0,
     layoutPreview |-> <<>>]

\* no pure function has been called
CallIdle == callArgs = <<>> /\ callResult = <<>>

\* Step5PrintSetup is not rendered
SetupIdle ==
    /\ printPaired = 0
    /\ printSingles = 0
    /\ printConfig = InitialPrintConfig
    /\ isGeneratingPreview = FALSE
    /\ previewCalls = <<>>
    /\ previewsIssued = 0
    /\ setupPc = "unmounted"
    /\ setupToast = ""
    /\ continuedWith = NoConfig

NoUploadOp == [name |-> "", files |-> <<>>, id |-> 0]

\* Step1Upload is not rendered
UploadIdle ==
    /\ uploadQueue = <<>>
    /\ pendingSelections = <<>>
    /\ uploadToast = ""
    /\ uploadOp = NoUploadOp
    /\ nextDocId = 1
    /\ uploadOps = 0

\* a fraction, as the pair of its numerator and its positive denominator
One == [num |-> 1, den |-> 1]
\* the double 1: the fraction 1 with no rounding error
ZoomOne == [num |-> 1, den |-> 1, err |-> 0]
Origin == [x |-> 0, y |-> 0]
NoLayout == [container |-> Origin, image |-> Origin, display |-> Origin, cropBox |-> Origin]
NoCrop ==
    [x |-> One, y |-> One, width |-> One, height |-> One,
     displayWidth |-> 0, displayHeight |-> 0, naturalWidth |-> 0, naturalHeight |-> 0,
     zoom |-> ZoomOne, set |-> FALSE]

\* Step2Crop with its CropTool is not rendered
CropIdle ==
    /\ layout = NoLayout
    /\ zoom = ZoomOne
    /\ position = Origin
    /\ isDragging = FALSE
    /\ dragStart = Origin
    /\ imageLoaded = FALSE
    /\ naturalDimensions = [width |-> 0, height |-> 0]
    /\ cropData = NoCrop
    /\ cropToast = ""
    /\ cropCompleted = NoCrop

InitialStats ==
    [total |-> 0, idCards |-> 0, singleDocuments |-> 0, paired |-> 0, unpaired |-> 0,
     failed |-> 0]

\* Step2Processing is not rendered
ProcIdle ==
    /\ uploadedDocuments = <<>>
    /\ processingDocs = <<>>
    /\ cleanedDocs = <<>>
    /\ cleaned = <<>>
    /\ overallProgress = [num |-> 0, den |-> 1]
    /\ stats = InitialStats
    /\ procPc = "unmounted"
    /\ procIndex = 0
    /\ procToast = ""
    /\ procTimer = FALSE
    /\ processedWith = [called |-> FALSE, cleaned |-> <<>>]

\* no late callback is pending in the wizard
NoLate == [kind |-> "", step |-> 0, cleaned |-> <<>>]
WizardIdle ==
    /\ lateCallbacks = <<>>
    /\ fired = NoLate
    /\ navigations = 0

\* Step6Confirmation is not rendered
NoJob == [id |-> "", currentPage |-> 0]
NoPrintLog == [created |-> "", sent |-> "", polls |-> <<>>]
PrintIdle ==
    /\ printStatus = "preparing"
    /\ printError = ""
    /\ printJob = NoJob
    /\ printPc = "idle"
    /\ pollInterval = FALSE
    /\ pollsInFlight = <<>>
    /\ printRun = 0
    /\ pollTicks = 0
    /\ printLog = NoPrintLog
    /\ printToast = ""

\* the passport ApiService has not been called
NoApiOp == [name |-> "", call |-> "", outcome |-> ""]
CloudIdle ==
    /\ cloudinaryEnabled = TRUE
    /\ cloudinaryFallbackCount = 0
    /\ cloudinaryCalls = <<>>
    /\ pythonCalls = <<>>
    /\ apiCalls = 0
    /\ apiOp = NoApiOp

LaterIdle == WizardIdle /\ PrintIdle /\ CloudIdle

OthersIdle == CallIdle /\ SetupIdle /\ UploadIdle /\ CropIdle /\ ProcIdle /\ LaterIdle

\* the pairing stage is not rendered
PairingUnmounted ==
    /\ cleanedDocuments = <<>>
    /\ pairedIDs = <<>>
    /\ unpairedIDs = <<>>
    /\ singleDocs = <<>>
    /\ selectedForPairing = NoSelection
    /\ isPairing = FALSE
    /\ pc = "mounted"
    /\ timerPending = FALSE
    /\ autoPairResult = NoResult
    /\ now = 0
    /\ toast = ""
    /\ lastOp = Op("mount", "", "", <<"none", 0>>)
    /\ currentStep = 3
    /\ wizardPaired = <<>>
    /\ wizardSingles = <<>>
    /\ completeCalls = 0
    /\ roundTrip = NoRoundTrip
    /\ cpArgs = <<NoDoc, NoDoc>>
    /\ cpResult = <<FALSE, FALSE, FALSE>>

\* one component is rendered or called, the others are not
OnlyCall == PairingUnmounted /\ SetupIdle /\ UploadIdle /\ CropIdle /\ ProcIdle /\ LaterIdle
OnlySetup == PairingUnmounted /\ CallIdle /\ UploadIdle /\ CropIdle /\ ProcIdle /\ LaterIdle
OnlyUpload == PairingUnmounted /\ CallIdle /\ SetupIdle /\ CropIdle /\ ProcIdle /\ LaterIdle
OnlyCrop == PairingUnmounted /\ CallIdle /\ SetupIdle /\ UploadIdle /\ ProcIdle /\ LaterIdle
OnlyProc == PairingUnmounted /\ CallIdle /\ SetupIdle /\ UploadIdle /\ CropIdle /\ LaterIdle
OnlyPrint ==
    /\ PairingUnmounted /\ CallIdle /\ SetupIdle /\ UploadIdle /\ CropIdle /\ ProcIdle
    /\ WizardIdle /\ CloudIdle
OnlyCloud ==
    /\ PairingUnmounted /\ CallIdle /\ SetupIdle /\ UploadIdle /\ CropIdle /\ ProcIdle
    /\ WizardIdle /\ PrintIdle

UiLive == currentStep = 3 /\ pc = "idle" /\ ~isPairing

Init ==
    /\ cleanedDocuments \in Batches
    /\ pairedIDs = <<>>
    /\ unpairedIDs = <<>>
    /\ singleDocs = <<>>
    /\ selectedForPairing = NoSelection
    /\ isPairing = FALSE
    /\ pc = "mounted"
    /\ timerPending = FALSE
    /\ autoPairResult = NoResult
    /\ now = 0
    /\ toast = ""
    /\ lastOp = Op("mount", "", "", <<"none", 0>>)
    /\ currentStep = 3
    /\ wizardPaired = <<>>
    /\ wizardSingles = <<>>
    /\ completeCalls = 0
    /\ roundTrip = NoRoundTrip
    /\ cpArgs = <<NoDoc, NoDoc>>
    /\ cpResult = <<FALSE, FALSE, FALSE>>
    /\ OthersIdle

\* Index.handleNext, with the currentStep its closure captured
handleNext(closureStep) ==
    currentStep' = IF closureStep < totalSteps THEN closureStep + 1 ELSE currentStep

\* Index.handlePairingComplete, reached through the onPairingComplete prop that
\* Step3Pairing received while the wizard rendered step 3
onPairingComplete(paired, singles) ==
    /\ wizardPaired' = paired
    /\ wizardSingles' = singles
    /\ handleNext(3)
    /\ completeCalls' = completeCalls + 1

\* the mount effect: performAutoPairing up to its first await (or its return)
performAutoPairing ==
    /\ pc = "mounted"
    /\ LET idCards == filterByCategory(cleanedDocuments, "id_card")
           singles == filterByCategory(cleanedDocuments, "single_document")
       IN  /\ singleDocs' = singles
           /\ IF Len(idCards) = 0
              THEN /\ isPairing' = FALSE
                   /\ timerPending' = TRUE
                   /\ pc' = "idle"
              ELSE /\ isPairing' = TRUE
                   /\ timerPending' = FALSE
                   /\ pc' = "awaiting"
    /\ lastOp' = Op("performAutoPairing", "", "", <<"none", 0>>)
    /\ UNCHANGED <<cleanedDocuments, pairedIDs, unpairedIDs, selectedForPairing,
                   autoPairResult, now, toast, currentStep, wizardPaired,
                   wizardSingles, completeCalls, roundTrip, cpVars, otherVars>>

\* performAutoPairing after the await: the answer of the matcher has arrived
autoPairResolve ==
    /\ pc = "awaiting"
    /\ \E result \in PairingResponses(filterByCategory(cleanedDocuments, "id_card")) :
        /\ autoPairResult' = result
        /\ IF result.state # "success"
           THEN /\ toast' = "Auto-pairing failed"
                /\ UNCHANGED <<pairedIDs, unpairedIDs>>
           ELSE /\ pairedIDs' = result.paired
                /\ unpairedIDs' = result.unpaired
                /\ toast' = "Auto-pairing complete"
    /\ isPairing' = FALSE
    /\ pc' = "idle"
    /\ lastOp' = Op("autoPairResolve", "", "", <<"none", 0>>)
    /\ UNCHANGED <<cleanedDocuments, singleDocs, selectedForPairing, timerPending,
                   now, currentStep, wizardPaired, wizardSingles, completeCalls,
                   roundTrip, cpVars, otherVars>>

\* the 500 ms timer of the no-ID-card path fires; it is never cancelled
autoProceedTimer ==
    /\ timerPending
    /\ timerPending' = FALSE
    /\ onPairingComplete(<<>>, filterByCategory(cleanedDocuments, "single_document"))
    /\ lastOp' = Op("autoProceedTimer", "", "", <<"none", 0>>)
    /\ roundTrip' = NoRoundTrip
    /\ UNCHANGED <<cleanedDocuments, pairedIDs, unpairedIDs, singleDocs,
                   selectedForPairing, isPairing, pc, autoPairResult, now, toast,
                   cpVars, otherVars>>

(* A seeded fault: the two documents are stored on the wrong sides. *)
ManualPairSwapped(frontCard, backCard) ==
    [id |-> <<"pair", now>>,
     frontDoc |-> backCard.document,
     backDoc |-> frontCard.document,
     confidence |-> 100,
     pairingMethod |-> "manual",
     status |-> "paired"]

ManualPair(frontCard, backCard) ==
    [id |-> <<"pair", now>>,
     frontDoc |-> frontCard.document,
     backDoc |-> backCard.document,
     confidence |-> 100,
     pairingMethod |-> "manual",
     status |-> "paired"]

(* A seeded fault: an incompatible pair is created all the same. *)
handleManualPairUnchecked(frontId, backId) ==
    LET fi == FindCard(unpairedIDs, frontId)
        bi == FindCard(unpairedIDs, backId)
    IN  IF fi = 0 \/ bi = 0
        THEN /\ toast' = "Pairing failed"
             /\ UNCHANGED <<pairedIDs, unpairedIDs>>
        ELSE /\ pairedIDs' = Append(pairedIDs, ManualPair(unpairedIDs[fi], unpairedIDs[bi]))
             /\ unpairedIDs' = SelectSeq(unpairedIDs,
                    LAMBDA u : u.document.id # frontId /\ u.document.id # backId)
             /\ toast' = IF canPair(unpairedIDs[fi].document, unpairedIDs[bi].document)
                         THEN "Paired successfully" ELSE "Cannot pair"

(* A seeded fault: only the front candidate leaves the unpaired list. *)
handleManualPairKeepsBack(frontId, backId) ==
    LET fi == FindCard(unpairedIDs, frontId)
        bi == FindCard(unpairedIDs, backId)
    IN  IF fi = 0 \/ bi = 0
        THEN /\ toast' = "Pairing failed"
             /\ UNCHANGED <<pairedIDs, unpairedIDs>>
        ELSE IF ~canPair(unpairedIDs[fi].document, unpairedIDs[bi].document)
        THEN /\ toast' = "Cannot pair"
             /\ UNCHANGED <<pairedIDs, unpairedIDs>>
        ELSE /\ pairedIDs' = Append(pairedIDs, ManualPair(unpairedIDs[fi], unpairedIDs[bi]))
             /\ unpairedIDs' = SelectSeq(unpairedIDs, LAMBDA u : u.document.id # frontId)
             /\ toast' = "Paired successfully"

handleManualPair(frontId, backId) ==
    LET fi == FindCard(unpairedIDs, frontId)
        bi == FindCard(unpairedIDs, backId)
    IN  IF fi = 0 \/ bi = 0
        THEN /\ toast' = "Pairing failed"
             /\ UNCHANGED <<pairedIDs, unpairedIDs>>
        ELSE IF ~canPair(unpairedIDs[fi].document, unpairedIDs[bi].document)
        THEN /\ toast' = "Cannot pair"
             /\ UNCHANGED <<pairedIDs, unpairedIDs>>
        ELSE /\ pairedIDs' = Append(pairedIDs, ManualPair(unpairedIDs[fi], unpairedIDs[bi]))
             /\ unpairedIDs' = SelectSeq(unpairedIDs,
                    LAMBDA u : u.document.id # frontId /\ u.document.id # backId)
             /\ toast' = "Paired successfully"

\* the observer's step on a click on a candidate
RoundTripOnSelect(cardId, side) ==
    IF roundTrip.phase = 1 /\ side = "front" /\ cardId = roundTrip.pair.frontDoc.id
    THEN [roundTrip EXCEPT !.phase = 2]
    ELSE IF roundTrip.phase = 2 /\ side = "back" /\ cardId = roundTrip.pair.backDoc.id
    THEN [roundTrip EXCEPT !.phase = 3]
    ELSE NoRoundTrip

(* A seeded fault: a completed selection stays selected. *)
handleCardSelectSticky(cardId, side) ==
    LET newSelection == [selectedForPairing EXCEPT ![side] = cardId]
    IN  /\ IF newSelection.front # "" /\ newSelection.back # ""
           THEN handleManualPair(newSelection.front, newSelection.back)
           ELSE UNCHANGED <<pairedIDs, unpairedIDs, toast>>
        /\ selectedForPairing' = newSelection

handleCardSelect(cardId, side) ==
    LET newSelection == [selectedForPairing EXCEPT ![side] = cardId]
    IN  IF newSelection.front # "" /\ newSelection.back # ""
        THEN /\ handleManualPair(newSelection.front, newSelection.back)
             /\ selectedForPairing' = NoSelection
        ELSE /\ selectedForPairing' = newSelection
             /\ UNCHANGED <<pairedIDs, unpairedIDs, toast>>

\* a click on a card of the manual-pairing grid
CardClick ==
    /\ UiLive
    /\ \E k \in 1..Len(unpairedIDs) :
        LET cardId == unpairedIDs[k].document.id
            side == unpairedIDs[k].side
        IN  /\ handleCardSelect(cardId, side)
            /\ lastOp' = Op("handleCardSelect", cardId, side, <<"none", 0>>)
            /\ roundTrip' = RoundTripOnSelect(cardId, side)
    /\ UNCHANGED <<cleanedDocuments, singleDocs, isPairing, pc, timerPending,
                   autoPairResult, now, currentStep, wizardPaired, wizardSingles,
                   completeCalls, cpVars, otherVars>>

\* the id of a candidate (unpaired_<side>_<Date.now()>) is only its React key: no
\* handler reads it, and the candidates are modelled without it
Candidate(doc, side) ==
    [document |-> doc,
     side |-> side,
     status |-> "unpaired",
     reason |-> "no_match"]

handleUnpair(pairId) ==
    LET k == FindPair(pairedIDs, pairId)
    IN  IF k = 0
        THEN UNCHANGED <<pairedIDs, unpairedIDs, toast>>
        ELSE /\ unpairedIDs' = unpairedIDs \o
                    << Candidate(pairedIDs[k].frontDoc, "front"),
                       Candidate(pairedIDs[k].backDoc, "back") >>
             /\ pairedIDs' = SelectSeq(pairedIDs, LAMBDA p : p.id # pairId)
             /\ toast' = "Unpaired"

\* a click on the Unpair button of a pair card
UnpairClick ==
    /\ UiLive
    /\ \E k \in 1..Len(pairedIDs) :
        LET pairId == pairedIDs[k].id
        IN  /\ handleUnpair(pairId)
            /\ lastOp' = Op("handleUnpair", "", "", pairId)
            /\ roundTrip' = [phase |-> 1,
                             pair |-> pairedIDs[FindPair(pairedIDs, pairId)],
                             before |-> unpairedIDs,
                             backPending |-> selectedForPairing.back # ""]
    /\ UNCHANGED <<cleanedDocuments, singleDocs, selectedForPairing, isPairing, pc,
                   timerPending, autoPairResult, now, currentStep, wizardPaired,
                   wizardSingles, completeCalls, cpVars, otherVars>>

(* A seeded fault: the guard on the unpaired list is missing. *)
handleContinueUnguarded ==
    /\ onPairingComplete(pairedIDs, singleDocs)
    /\ UNCHANGED toast

handleContinue ==
    IF Len(unpairedIDs) > 0
    THEN /\ toast' = "Unpaired cards remaining"
         /\ UNCHANGED <<currentStep, wizardPaired, wizardSingles, completeCalls>>
    ELSE /\ onPairingComplete(pairedIDs, singleDocs)
         /\ UNCHANGED toast

\* the Continue handler runs
ContinueClick ==
    /\ UiLive
    /\ handleContinue
    /\ lastOp' = Op("handleContinue", "", "", <<"none", 0>>)
    /\ roundTrip' = NoRoundTrip
    /\ UNCHANGED <<cleanedDocuments, pairedIDs, unpairedIDs, singleDocs,
                   selectedForPairing, isPairing, pc, timerPending, autoPairResult,
                   now, cpVars, otherVars>>

\* the clock advances
Tick ==
    /\ now < MaxClock
    /\ now' = now + 1
    /\ lastOp' = Op("tick", "", "", <<"none", 0>>)
    /\ UNCHANGED <<cleanedDocuments, pairedIDs, unpairedIDs, singleDocs,
                   selectedForPairing, isPairing, pc, timerPending, autoPairResult,
                   toast, currentStep, wizardPaired, wizardSingles,
                   completeCalls, roundTrip, cpVars, otherVars>>

Next ==
    \/ performAutoPairing
    \/ autoPairResolve
    \/ autoProceedTimer
    \/ CardClick
    \/ UnpairClick
    \/ ContinueClick
    \/ Tick

Spec == Init /\ [][Next]_vars

-----------------------------------------------------------------------------
(* documentService.canPair called directly on two documents *)

CanPairDocs ==
    { [id |-> "doc", detectedType |-> t, detectedCategory |-> c] :
        t \in DocumentType, c \in DocumentCategory }

InitCanPair ==
    /\ cleanedDocuments = <<>>
    /\ pairedIDs = <<>>
    /\ unpairedIDs = <<>>
    /\ singleDocs = <<>>
    /\ selectedForPairing = NoSelection
    /\ isPairing = FALSE
    /\ pc = "mounted"
    /\ timerPending = FALSE
    /\ autoPairResult = NoResult
    /\ now = 0
    /\ toast = ""
    /\ lastOp = Op("mount", "", "", <<"none", 0>>)
    /\ currentStep = 3
    /\ wizardPaired = <<>>
    /\ wizardSingles = <<>>
    /\ completeCalls = 0
    /\ roundTrip = NoRoundTrip
    /\ cpArgs \in CanPairDocs \X CanPairDocs
    /\ cpResult = <<FALSE, FALSE, FALSE>>
    /\ OthersIdle

\* canPair(front, back) and canPair(back, front) are evaluated
CanPairCall ==
    /\ ~cpResult[1]
    /\ cpResult' = <<TRUE, canPair(cpArgs[1], cpArgs[2]), canPair(cpArgs[2], cpArgs[1])>>
    /\ UNCHANGED <<pairingVars, cpArgs, otherVars>>

NextCanPair == CanPairCall

SpecCanPair == InitCanPair /\ [][NextCanPair]_vars

-----------------------------------------------------------------------------
(* Notions used by the properties *)

\* the pairability predicate as the specification words it
Pairable(f, b) ==
    /\ f.detectedCategory = "id_card"
    /\ b.detectedCategory = "id_card"
    /\ SideOf(f.detectedType) = "front"
    /\ SideOf(b.detectedType) = "back"
    /\ BaseType(f.detectedType) = BaseType(b.detectedType)

\* the selection a click on (cardId, side) produces
Clicked(op) == [selectedForPairing EXCEPT ![op.side] = op.cardId]

HasCard(cards, docId) == \E i \in 1..Len(cards) : cards[i].document.id = docId

CardDoc(cards, docId) ==
    (CHOOSE u \in { cards[i] : i \in 1..Len(cards) } : u.document.id = docId).document

\* the click completes a selection whose two cards can be paired
PairSucceeds(op) ==
    LET sel == Clicked(op)
    IN  /\ sel.front # "" /\ sel.back # ""
        /\ HasCard(unpairedIDs, sel.front) /\ HasCard(unpairedIDs, sel.back)
        /\ Pairable(CardDoc(unpairedIDs, sel.front), CardDoc(unpairedIDs, sel.back))

\* the click completes a selection whose two cards cannot be paired
PairFails(op) ==
    LET sel == Clicked(op)
    IN  /\ sel.front # "" /\ sel.back # ""
        /\ ~PairSucceeds(op)

Last(seq) == seq[Len(seq)]

RemoveAt(seq, k) == [i \in 1..(Len(seq)-1) |-> IF i < k THEN seq[i] ELSE seq[i+1]]

-----------------------------------------------------------------------------
(* C1: canPair(front, back) is true only when both documents are id_card,  *)
(* the side of front is 'front', the side of back is 'back' and the base   *)
(* types are equal; and then canPair(back, front) is false.                *)
C1_CanPairOrdered ==
    (cpResult[1] /\ cpResult[2]) =>
        /\ cpArgs[1].detectedCategory = "id_card"
        /\ cpArgs[2].detectedCategory = "id_card"
        /\ getDocumentSide(cpArgs[1].detectedType) = "front"
        /\ getDocumentSide(cpArgs[2].detectedType) = "back"
        /\ BaseType(cpArgs[1].detectedType) = BaseType(cpArgs[2].detectedType)
        /\ ~cpResult[3]

C1_Witness == cpResult[1] /\ cpResult[2] /\ ~cpResult[3]

(* C2: handleContinue hands over exactly when the unpaired list is empty:  *)
(* with candidates left nothing is called and nothing changes; with none   *)
(* left onPairingComplete is called with the current pairs and singles.    *)
C2_ContinueIffNoUnpaired ==
    [][ lastOp'.name = "handleContinue" =>
          IF Len(unpairedIDs) > 0
          THEN /\ completeCalls' = completeCalls
               /\ UNCHANGED <<pairedIDs, unpairedIDs, singleDocs,
                              currentStep, wizardPaired, wizardSingles>>
          ELSE /\ completeCalls' = completeCalls + 1
               /\ wizardPaired' = pairedIDs
               /\ wizardSingles' = singleDocs ]_vars

C2_Witness ==
    /\ lastOp.name = "handleContinue"
    /\ Len(unpairedIDs) > 0
    /\ toast = "Unpaired cards remaining"
    /\ completeCalls = 0

(* C3: a successful manual pair removes exactly the two candidates with    *)
(* those document ids from unpaired, keeping the others in order, and      *)
(* appends one Pair of those documents, manual, confidence 100.            *)
C3_ManualPairEffect ==
    [][ (lastOp'.name = "handleCardSelect" /\ PairSucceeds(lastOp')) =>
          LET sel == Clicked(lastOp')
          IN  /\ unpairedIDs' = SelectSeq(unpairedIDs,
                    LAMBDA u : u.document.id \notin {sel.front, sel.back})
              /\ Len(unpairedIDs') = Len(unpairedIDs) - 2
              /\ Len(pairedIDs') = Len(pairedIDs) + 1
              /\ SubSeq(pairedIDs', 1, Len(pairedIDs)) = pairedIDs
              /\ Last(pairedIDs').frontDoc = CardDoc(unpairedIDs, sel.front)
              /\ Last(pairedIDs').backDoc = CardDoc(unpairedIDs, sel.back)
              /\ Last(pairedIDs').pairingMethod = "manual"
              /\ Last(pairedIDs').confidence = 100 ]_vars

C3_Witness ==
    /\ lastOp.name = "handleCardSelect"
    /\ toast = "Paired successfully"
    /\ selectedForPairing = NoSelection
    /\ Len(pairedIDs) > 0
    /\ Last(pairedIDs).pairingMethod = "manual"
    /\ Len(unpairedIDs) > 0

(* C4: a manual pair attempt that fails the pairability predicate, or that *)
(* names a document not in unpaired, leaves paired and unpaired unchanged. *)
C4_FailedPairKeepsState ==
    [][ (lastOp'.name = "handleCardSelect" /\ PairFails(lastOp')) =>
          UNCHANGED <<pairedIDs, unpairedIDs>> ]_vars

C4_Witness ==
    /\ lastOp.name = "handleCardSelect"
    /\ toast = "Cannot pair"
    /\ selectedForPairing = NoSelection
    /\ Len(unpairedIDs) >= 2

(* C5: a click that completes the selection attempts the pair in the same  *)
(* step and leaves the selection empty, whether the pair was made or not;  *)
(* any other click changes only the clicked side of the selection.         *)
C5_SelectStep ==
    [][ lastOp'.name = "handleCardSelect" =>
          LET sel == Clicked(lastOp')
          IN  IF sel.front # "" /\ sel.back # ""
              THEN /\ selectedForPairing' = NoSelection
                   /\ toast' \in {"Paired successfully", "Cannot pair", "Pairing failed"}
                   /\ (toast' = "Paired successfully") = PairSucceeds(lastOp')
                   /\ Len(pairedIDs') = Len(pairedIDs)
                                        + (IF PairSucceeds(lastOp') THEN 1 ELSE 0)
              ELSE /\ selectedForPairing' = sel
                   /\ UNCHANGED <<pairedIDs, unpairedIDs>> ]_vars

C5_Witness ==
    /\ lastOp.name = "handleCardSelect"
    /\ selectedForPairing = NoSelection
    /\ toast \in {"Paired successfully", "Cannot pair"}
    /\ autoPairResult.state = "success"

(* C6: unpair(pairId) on an existing pair removes that pair from paired and *)
(* appends to unpaired its front (side front) followed by its back (side   *)
(* back), both with reason no_match; all other pairs and candidates are    *)
(* unchanged.                                                              *)
C6_UnpairEffect ==
    [][ (lastOp'.name = "handleUnpair" /\ FindPair(pairedIDs, lastOp'.pairId) # 0) =>
          LET k == FindPair(pairedIDs, lastOp'.pairId)
          IN  /\ pairedIDs' = RemoveAt(pairedIDs, k)
              /\ unpairedIDs' = unpairedIDs \o
                    << [document |-> pairedIDs[k].frontDoc, side |-> "front",
                        status |-> "unpaired", reason |-> "no_match"],
                       [document |-> pairedIDs[k].backDoc, side |-> "back",
                        status |-> "unpaired", reason |-> "no_match"] >> ]_vars

ReferencesUnknown(result) ==
    \/ \E i \in 1..Len(result.paired) :
          \/ result.paired[i].frontDoc.id \notin IdsOf(cleanedDocuments)
          \/ result.paired[i].backDoc.id \notin IdsOf(cleanedDocuments)
    \/ \E i \in 1..Len(result.unpaired) :
          result.unpaired[i].document.id \notin IdsOf(cleanedDocuments)

(* C8: seeding fails, surfaced as 'Auto-pairing failed' with no paired or  *)
(* unpaired state installed, whenever the auto-pairing answer references a *)
(* document id absent from the classified input documents.                 *)
C8_UnknownIdFailsSeed ==
    (lastOp.name = "autoPairResolve" /\ ReferencesUnknown(autoPairResult)) =>
        /\ toast = "Auto-pairing failed"
        /\ pairedIDs = <<>>
        /\ unpairedIDs = <<>>

Places(pairs, d) ==
    Cardinality({ i \in 1..Len(pairs) : pairs[i].frontDoc.id = d.id })
    + Cardinality({ i \in 1..Len(pairs) : pairs[i].backDoc.id = d.id })

(* C10: whenever the pairing stage hands its result over, every input      *)
(* document of category id_card is the front or the back of exactly one    *)
(* Pair of the handed-over list.                                           *)
C10_NoIdCardDropped ==
    completeCalls > 0 =>
        \A i \in 1..Len(cleanedDocuments) :
            cleanedDocuments[i].detectedCategory = "id_card"
                => Places(wizardPaired, cleanedDocuments[i]) = 1

-----------------------------------------------------------------------------
(* Step5PrintSetup.tsx: the print layout and its page count *)

\* Math.ceil(n / 2)
CeilHalf(n) == IF n % 2 = 0 THEN n \div 2 ELSE n \div 2 + 1

\* an id_layout page count that rounds down
pagesRoundedDown(layoutType, paired, singles) ==
    IF layoutType = "id_layout"
    THEN (paired + singles) \div 2
    ELSE paired + singles

\* an id_layout that gives an odd number of cards a page each
pagesOddUnshared(layoutType, paired, singles) ==
    IF layoutType = "id_layout"
    THEN IF (paired + singles) % 2 = 0 THEN (paired + singles) \div 2
                                       ELSE paired + singles
    ELSE paired + singles

\* an id_layout that always ends with a page of its own
pagesPadded(layoutType, paired, singles) ==
    IF layoutType = "id_layout"
    THEN (paired + singles) \div 2 + 1
    ELSE paired + singles

\* calculateTotalPages: the value of its local variable pages
pages(layoutType, paired, singles) ==
    IF layoutType = "id_layout"
    THEN CeilHalf(paired + singles)
    ELSE paired + singles

\* an initial layout that looks at the ID cards only (hasIDCards)
initialLayoutAnyID(paired, singles) ==
    IF paired > 0 THEN "id_layout" ELSE "document_layout"

\* the mount effect's initialLayout
initialLayout(paired, singles) ==
    IF paired > 0 /\ singles = 0 THEN "id_layout" ELSE "document_layout"

\* layoutOptions: the page count shown on each layout's button
layoutOptions ==
    [type \in LayoutType |->
        IF type = "id_layout"
        THEN [pageCount |-> CeilHalf(printPaired + printSingles)]
        ELSE [pageCount |-> printPaired + printSingles]]

\* the preview_urls the backend answers a request for layoutType with:
\* one URL per page of that layout
PreviewUrls(layoutType) ==
    [i \in 1..pages(layoutType, printPaired, printSingles) |-> <<layoutType, i>>]

\* generatePreview up to its await
generatePreview(layoutType) ==
    /\ isGeneratingPreview' = TRUE
    /\ previewCalls' = Append(previewCalls, layoutType)
    /\ previewsIssued' = previewsIssued + 1

\* a layout change that keeps the page count of the layout before
calculateTotalPagesStale(layoutType) ==
    /\ printConfig' = [printConfig EXCEPT !.layoutType = layoutType]
    /\ generatePreview(layoutType)

calculateTotalPages(layoutType) ==
    /\ printConfig' = [printConfig EXCEPT
                         !.layoutType = layoutType,
                         !.totalPages = pages(layoutType, printPaired, printSingles)]
    /\ generatePreview(layoutType)

\* useEffect(..., []) of Step5PrintSetup
setupMount ==
    /\ setupPc = "unmounted"
    /\ setupPc' = "mounted"
    /\ calculateTotalPages(initialLayout(printPaired, printSingles))
    /\ UNCHANGED <<printPaired, printSingles, setupToast, continuedWith,
                   notSetup>>

handleLayoutChange(layoutType) ==
    /\ calculateTotalPages(layoutType)
    /\ UNCHANGED <<printPaired, printSingles, setupPc, setupToast, continuedWith,
                   notSetup>>

\* a click on one of the two layout buttons
LayoutClick ==
    /\ setupPc = "mounted"
    /\ previewsIssued < MaxPreviews
    /\ \E layoutType \in LayoutType : handleLayoutChange(layoutType)

\* the await of generatePreview returns success for the k-th pending request
previewSucceeds(k) ==
    /\ k \in 1..Len(previewCalls)
    /\ previewCalls' = RemoveAt(previewCalls, k)
    /\ IF setupPc = "mounted"
       THEN /\ printConfig' = [printConfig EXCEPT
                                 !.layoutPreview = PreviewUrls(previewCalls[k])]
            /\ isGeneratingPreview' = FALSE
       ELSE UNCHANGED <<printConfig, isGeneratingPreview>>
    /\ UNCHANGED <<printPaired, printSingles, previewsIssued, setupPc, setupToast,
                   continuedWith, notSetup>>

\* the await throws, or the response has no data
previewFails(k) ==
    /\ k \in 1..Len(previewCalls)
    /\ previewCalls' = RemoveAt(previewCalls, k)
    /\ IF setupPc = "mounted"
       THEN /\ setupToast' = "Preview failed"
            /\ isGeneratingPreview' = FALSE
       ELSE UNCHANGED <<setupToast, isGeneratingPreview>>
    /\ UNCHANGED <<printPaired, printSingles, printConfig, previewsIssued, setupPc,
                   continuedWith, notSetup>>

previewResolve ==
    \E k \in 1..Len(previewCalls) : previewSucceeds(k) \/ previewFails(k)

\* Step5PrintSetup.handleContinue; onContinue makes the wizard leave the step
printHandleContinue ==
    /\ IF Len(printConfig.layoutPreview) = 0
       THEN /\ setupToast' = "No preview"
            /\ UNCHANGED <<continuedWith, setupPc>>
       ELSE /\ continuedWith' = printConfig
            /\ setupPc' = "continued"
            /\ UNCHANGED setupToast
    /\ UNCHANGED <<printPaired, printSingles, printConfig, isGeneratingPreview,
                   previewCalls, previewsIssued, notSetup>>

\* a click on Continue to Print, which is disabled while a preview is generated
\* or none is there
PrintContinueClick ==
    /\ setupPc = "mounted"
    /\ ~(isGeneratingPreview \/ Len(printConfig.layoutPreview) = 0)
    /\ printHandleContinue

InitSetup ==
    /\ OnlySetup
    /\ printPaired \in 0..MaxCount
    /\ printSingles \in 0..MaxCount
    /\ printConfig = InitialPrintConfig
    /\ isGeneratingPreview = FALSE
    /\ previewCalls = <<>>
    /\ previewsIssued = 0
    /\ setupPc = "unmounted"
    /\ setupToast = ""
    /\ continuedWith = NoConfig

NextSetup ==
    \/ setupMount
    \/ LayoutClick
    \/ previewResolve
    \/ PrintContinueClick

SpecSetup == InitSetup /\ [][NextSetup]_vars

-----------------------------------------------------------------------------
(* calculateTotalPages' page count evaluated directly, at two pairs of counts *)

PlanArgs ==
    [paired : 0..MaxCount, singles : 0..MaxCount,
     morePaired : 0..MaxMore, moreSingles : 0..MaxMore]

InitPlan ==
    /\ OnlyCall
    /\ callArgs \in PlanArgs
    /\ callResult = <<>>

\* the page count of each layout, for the counts and for the raised counts
PlanCall ==
    /\ callResult = <<>>
    /\ callResult' =
         [layoutType \in LayoutType |->
            [atCounts |-> pages(layoutType, callArgs.paired, callArgs.singles),
             atMore   |-> pages(layoutType, callArgs.paired + callArgs.morePaired,
                                callArgs.singles + callArgs.moreSingles)]]
    /\ UNCHANGED <<callArgs, notCall>>

NextPlan == PlanCall

SpecPlan == InitPlan /\ [][NextPlan]_vars

-----------------------------------------------------------------------------
(* Claims about the print layout *)

\* the least k with 2k >= n
HalfRoundedUp(n) == CHOOSE k \in 0..n : 2 * k >= n /\ 2 * (k - 1) < n

\* C11: a call of the page computation with counts p and s returns
\* ceil((p + s) / 2) for id_layout and p + s for document_layout; with both
\* counts 0 it returns 0 for either layout.
C11_TotalPages ==
    callResult # <<>> =>
        /\ callResult["id_layout"].atCounts
             = HalfRoundedUp(callArgs.paired + callArgs.singles)
        /\ callResult["document_layout"].atCounts
             = callArgs.paired + callArgs.singles
        /\ (callArgs.paired = 0 /\ callArgs.singles = 0 =>
              \A layoutType \in LayoutType : callResult[layoutType].atCounts = 0)

C11_Witness ==
    /\ callResult # <<>>
    /\ callArgs.paired + callArgs.singles = 3
    /\ callResult["id_layout"].atCounts = 2
    /\ callResult["document_layout"].atCounts = 3

\* C12: the step that runs the mount effect of the print-setup stage selects
\* id_layout if and only if there is at least one paired ID and no single
\* document, and document_layout otherwise.
C12_DefaultLayout ==
    [][ setupPc = "unmounted" /\ setupPc' = "mounted" =>
          /\ printConfig'.layoutType \in LayoutType
          /\ (printConfig'.layoutType = "id_layout"
                <=> (printPaired >= 1 /\ printSingles = 0)) ]_vars

C12_Witness ==
    /\ setupPc = "mounted"
    /\ previewsIssued = 1
    /\ printPaired >= 1
    /\ printSingles = 0
    /\ printConfig.layoutType = "id_layout"

\* C13: for either layout, the page count for counts raised by any amounts is
\* at least the page count for the original counts.
C13_Monotone ==
    callResult # <<>> =>
        \A layoutType \in LayoutType :
            callResult[layoutType].atCounts <= callResult[layoutType].atMore

C13_Witness ==
    /\ callResult # <<>>
    /\ callArgs.morePaired + callArgs.moreSingles = 1
    /\ callResult["id_layout"].atCounts = callResult["id_layout"].atMore
    /\ callResult["document_layout"].atCounts < callResult["document_layout"].atMore

\* C14: for the same counts the page count of id_layout is at most that of
\* document_layout.
C14_IdAtMostDocument ==
    callResult # <<>> =>
        /\ callResult["id_layout"].atCounts <= callResult["document_layout"].atCounts
        /\ callResult["id_layout"].atMore <= callResult["document_layout"].atMore

C14_Witness ==
    /\ callResult # <<>>
    /\ callArgs.paired + callArgs.singles = 1
    /\ callResult["id_layout"].atCounts = callResult["document_layout"].atCounts
    /\ callResult["id_layout"].atMore < callResult["document_layout"].atMore

-----------------------------------------------------------------------------
(* utils/fileValidation.ts *)

MAX_FILE_SIZE == 50 * 1024 * 1024
MAX_BATCH_SIZE == 200
ALLOWED_IMAGE_TYPES == <<"image/jpeg", "image/jpg", "image/png">>
ALLOWED_PDF_TYPE == "application/pdf"

\* a validateFile that rejects a file of exactly the size limit
validateFileStrict(file) ==
    IF ~Includes(ALLOWED_IMAGE_TYPES \o <<ALLOWED_PDF_TYPE>>, file.type)
    THEN [valid |-> FALSE, error |-> "Invalid file type"]
    ELSE IF file.size >= MAX_FILE_SIZE
    THEN [valid |-> FALSE, error |-> "File size exceeds limit"]
    ELSE [valid |-> TRUE, error |-> ""]

validateFile(file) ==
    IF ~Includes(ALLOWED_IMAGE_TYPES \o <<ALLOWED_PDF_TYPE>>, file.type)
    THEN [valid |-> FALSE, error |-> "Invalid file type"]
    ELSE IF file.size > MAX_FILE_SIZE
    THEN [valid |-> FALSE, error |-> "File size exceeds limit"]
    ELSE [valid |-> TRUE, error |-> ""]

\* a validateBatch that rejects a total of exactly the batch limit
validateBatchStrict(files, currentQueueSize) ==
    LET totalSize == currentQueueSize + Len(files)
    IN  IF totalSize >= MAX_BATCH_SIZE
        THEN [valid |-> FALSE, error |-> "Maximum documents allowed"]
        ELSE [valid |-> TRUE, error |-> ""]

validateBatch(files, currentQueueSize) ==
    LET totalSize == currentQueueSize + Len(files)
    IN  IF totalSize > MAX_BATCH_SIZE
        THEN [valid |-> FALSE, error |-> "Maximum documents allowed"]
        ELSE [valid |-> TRUE, error |-> ""]

RECURSIVE validateFiles(_)
validateFiles(files) ==
    IF files = <<>> THEN <<>>
    ELSE IF validateFile(Head(files)).valid
         THEN <<Head(files)>> \o validateFiles(Tail(files))
         ELSE validateFiles(Tail(files))

-----------------------------------------------------------------------------
(* validateFile and validateBatch called directly *)

\* File.type values: the four allowed ones, other images, other media, none
FileTypes ==
    {"image/jpeg", "image/jpg", "image/png", "application/pdf",
     "image/gif", "image/webp", "text/plain", ""}

FileSizes == {0} \cup ((MAX_FILE_SIZE - Margin)..(MAX_FILE_SIZE + Margin))

QueueSizes == {0} \cup ((MAX_BATCH_SIZE - Margin)..(MAX_BATCH_SIZE + Margin))

AnyFile == [name |-> "file", type |-> "image/jpeg", size |-> 0]

FileArgs ==
    { [fn |-> "validateFile", files |-> <<[name |-> "file", type |-> t, size |-> n]>>,
       currentQueueSize |-> 0] : t \in FileTypes, n \in FileSizes }

BatchArgs ==
    { [fn |-> "validateBatch", files |-> [i \in 1..k |-> AnyFile],
       currentQueueSize |-> q] : k \in 0..MaxIncoming, q \in QueueSizes }

InitValidation ==
    /\ OnlyCall
    /\ callArgs \in FileArgs \cup BatchArgs
    /\ callResult = <<>>

ValidateFileCall ==
    /\ callResult = <<>>
    /\ callArgs.fn = "validateFile"
    /\ callResult' = validateFile(callArgs.files[1])
    /\ UNCHANGED <<callArgs, notCall>>

ValidateBatchCall ==
    /\ callResult = <<>>
    /\ callArgs.fn = "validateBatch"
    /\ callResult' = validateBatch(callArgs.files, callArgs.currentQueueSize)
    /\ UNCHANGED <<callArgs, notCall>>

NextValidation == ValidateFileCall \/ ValidateBatchCall

SpecValidation == InitValidation /\ [][NextValidation]_vars

-----------------------------------------------------------------------------
(* Claims about file validation *)

\* C16: validateFile accepts a file if and only if its type is image/jpeg,
\* image/jpg, image/png or application/pdf and its size is at most
\* 52,428,800 bytes.
C16_ValidateFile ==
    (callResult # <<>> /\ callArgs.fn = "validateFile") =>
        (callResult.valid <=>
            /\ callArgs.files[1].type
                 \in {"image/jpeg", "image/jpg", "image/png", "application/pdf"}
            /\ callArgs.files[1].size <= 52428800)

C16_Witness ==
    /\ callResult # <<>>
    /\ callArgs.fn = "validateFile"
    /\ callArgs.files[1].type = "application/pdf"
    /\ callArgs.files[1].size = 52428800
    /\ callResult.valid

\* C17: validateBatch rejects if and only if the number of files plus the
\* current queue size exceeds 200.
C17_ValidateBatch ==
    (callResult # <<>> /\ callArgs.fn = "validateBatch") =>
        (~callResult.valid <=>
            Len(callArgs.files) + callArgs.currentQueueSize > 200)

C17_Witness ==
    /\ callResult # <<>>
    /\ callArgs.fn = "validateBatch"
    /\ Len(callArgs.files) = 2
    /\ callArgs.currentQueueSize = 198
    /\ callResult.valid

-----------------------------------------------------------------------------
(* Step1Upload.tsx: the upload queue *)

\* the files of the user's disk, in the order a selection lists them
Picked ==
    << [name |-> "a.jpg", type |-> "image/jpeg", size |-> 1024],
       [name |-> "b.gif", type |-> "image/gif", size |-> 1024],
       [name |-> "c.pdf", type |-> "application/pdf", size |-> MAX_FILE_SIZE],
       [name |-> "d.png", type |-> "image/png", size |-> MAX_FILE_SIZE + 1] >>

RECURSIVE FilesOf(_, _)
FilesOf(S, i) ==
    IF i > Len(Picked) THEN <<>>
    ELSE (IF i \in S THEN <<Picked[i]>> ELSE <<>>) \o FilesOf(S, i + 1)

\* the FileList of a change or drop event: at most MaxIncoming files
Selections ==
    { FilesOf(S, 1) : S \in { T \in SUBSET (1..Len(Picked)) : Cardinality(T) <= MaxIncoming } }

\* the queue lengths earlier selections have left
QueuedBefore == {0, MAX_BATCH_SIZE - 1}

\* documentService.prepareDocumentsForUpload: one document per file, each
\* with an id of its own
prepareDocumentsForUpload(files) ==
    [i \in 1..Len(files) |->
        [id |-> nextDocId + i - 1, file |-> files[i], filename |-> files[i].name,
         size |-> files[i].size]]

\* handleFileSelect up to its await
handleFileSelect(files) ==
    /\ uploadOp' = [name |-> "select", files |-> files, id |-> 0]
    /\ uploadOps' = uploadOps + 1
    /\ IF Len(files) = 0
       THEN UNCHANGED <<uploadToast, pendingSelections>>
       ELSE IF ~validateBatch(files, Len(uploadQueue)).valid
       THEN /\ uploadToast' = "Upload limit exceeded"
            /\ UNCHANGED pendingSelections
       ELSE IF Len(validateFiles(files)) = 0
       THEN /\ uploadToast' = "No valid files"
            /\ UNCHANGED pendingSelections
       ELSE /\ pendingSelections' = Append(pendingSelections, validateFiles(files))
            /\ UNCHANGED uploadToast
    /\ UNCHANGED <<uploadQueue, nextDocId, notUpload>>

\* the file input's onChange, or a drop on the upload zone
FileSelect ==
    /\ uploadOps < MaxUploadOps
    /\ \E files \in Selections : handleFileSelect(files)

\* handleFileSelect after its await, for the k-th pending call
filesPrepared(k) ==
    /\ k \in 1..Len(pendingSelections)
    /\ uploadQueue' = uploadQueue \o prepareDocumentsForUpload(pendingSelections[k])
    /\ nextDocId' = nextDocId + Len(pendingSelections[k])
    /\ pendingSelections' = RemoveAt(pendingSelections, k)
    /\ uploadToast' = "Files added"
    /\ uploadOp' = [name |-> "added", files |-> pendingSelections[k], id |-> 0]
    /\ UNCHANGED <<uploadOps, notUpload>>

FilesPrepared == \E k \in 1..Len(pendingSelections) : filesPrepared(k)

removeFromQueue(id) ==
    /\ uploadQueue' = SelectSeq(uploadQueue, LAMBDA doc : doc.id # id)
    /\ uploadOp' = [name |-> "remove", files |-> <<>>, id |-> id]
    /\ uploadOps' = uploadOps + 1
    /\ UNCHANGED <<pendingSelections, uploadToast, nextDocId, notUpload>>

\* a click on the X of the first or of the last card of the queue
RemoveClick ==
    /\ uploadOps < MaxUploadOps
    /\ Len(uploadQueue) > 0
    /\ \E doc \in {uploadQueue[1], uploadQueue[Len(uploadQueue)]} :
          removeFromQueue(doc.id)

\* the Clear All button, rendered while the queue is not empty
ClearAllClick ==
    /\ uploadOps < MaxUploadOps
    /\ Len(uploadQueue) > 0
    /\ uploadQueue' = <<>>
    /\ uploadOp' = [name |-> "clear", files |-> <<>>, id |-> 0]
    /\ uploadOps' = uploadOps + 1
    /\ UNCHANGED <<pendingSelections, uploadToast, nextDocId, notUpload>>

InitUpload ==
    /\ OnlyUpload
    /\ \E n \in QueuedBefore :
          /\ uploadQueue = [i \in 1..n |->
                              [id |-> i, file |-> Picked[1], filename |-> Picked[1].name,
                               size |-> Picked[1].size]]
          /\ nextDocId = n + 1
    /\ pendingSelections = <<>>
    /\ uploadToast = ""
    /\ uploadOp = NoUploadOp
    /\ uploadOps = 0

NextUpload ==
    \/ FileSelect
    \/ FilesPrepared
    \/ RemoveClick
    \/ ClearAllClick

SpecUpload == InitUpload /\ [][NextUpload]_vars

-----------------------------------------------------------------------------
(* Claims about admission to the upload queue *)

\* the files of a selection that pass the type and size check
ValidSubset(files) ==
    SelectSeq(files, LAMBDA f :
        /\ f.type \in {"image/jpeg", "image/jpg", "image/png", "application/pdf"}
        /\ f.size <= 52428800)

FilesIn(documents) == [i \in 1..Len(documents) |-> documents[i].file]

\* C15: a selection is filtered first and only its valid files are counted
\* against the limit: if their number plus the queue length exceeds 200 no
\* file of the selection is admitted, and otherwise exactly the valid files
\* are admitted, which are then appended to the queue.
C15_AdmissionComposition ==
    [][ /\ (uploadOp'.name = "select" /\ uploadOps' = uploadOps + 1 =>
              IF Len(ValidSubset(uploadOp'.files)) + Len(uploadQueue) > 200
              THEN /\ pendingSelections' = pendingSelections
                   /\ uploadQueue' = uploadQueue
              ELSE /\ uploadQueue' = uploadQueue
                   /\ \/ /\ ValidSubset(uploadOp'.files) = <<>>
                         /\ pendingSelections' = pendingSelections
                      \/ pendingSelections' =
                           Append(pendingSelections, ValidSubset(uploadOp'.files)))
        /\ (Len(pendingSelections') < Len(pendingSelections) =>
              FilesIn(uploadQueue') = FilesIn(uploadQueue) \o uploadOp'.files)
      ]_vars

-----------------------------------------------------------------------------
(* JavaScript numbers that are fractions: exact arithmetic on num/den *)

Abs(n) == IF n < 0 THEN -n ELSE n

RECURSIVE GCD(_, _)
GCD(a, b) == IF b = 0 THEN a ELSE GCD(b, a % b)

\* the fraction n/d in lowest terms; a division by zero gives what JavaScript
\* gives: Infinity (1/0), -Infinity (-1/0) or NaN (0/0)
Frac(n, d) ==
    IF d = 0
    THEN [num |-> IF n > 0 THEN 1 ELSE IF n < 0 THEN -1 ELSE 0, den |-> 0]
    ELSE LET g == GCD(Abs(n), Abs(d))
             sign == IF d < 0 THEN -1 ELSE 1
         IN  [num |-> sign * (n \div g), den |-> sign * (d \div g)]

Whole(n) == Frac(n, 1)
Plus(a, b) == Frac(a.num * b.den + b.num * a.den, a.den * b.den)
Minus(a, b) == Frac(a.num * b.den - b.num * a.den, a.den * b.den)
Times(a, b) == Frac(a.num * b.num, a.den * b.den)
Over(a, b) == Frac(a.num * b.den, a.den * b.num)
Less(a, b) == a.num * b.den < b.num * a.den
AtMost(a, b) == a.num * b.den <= b.num * a.den
FracMin(a, b) == IF AtMost(a, b) THEN a ELSE b
FracMax(a, b) == IF AtMost(a, b) THEN b ELSE a

-----------------------------------------------------------------------------
(* The zoom is a JavaScript number, an IEEE 754 double, and zoom + 0.1 and
   zoom - 0.1 are rounded to the nearest double.  A double d near k/10 is the
   record [num, den, err] with num/den = k/10 in lowest terms and
   d = k/10 + err * DoubleUnit, where DoubleUnit = 1 / (10 * 2^55); every
   double in [0.25, 4) is a whole number of such units away from k/10.  The
   fraction operators above read num and den only, so they compute with the
   double's nominal value k/10. *)

\* the literal 0.1 is the double 1/10 + 2 * DoubleUnit
TenthErr == 2

\* 2^55 modulo 320; the spacings of the doubles below all divide 320
TwoTo55Mod320 == 128

Tenths(z) == (z.num * 10) \div z.den
Double(k, e) == [num |-> Frac(k, 10).num, den |-> Frac(k, 10).den, err |-> e]

DoubleLess(a, b) ==
    \/ Tenths(a) < Tenths(b)
    \/ Tenths(a) = Tenths(b) /\ a.err < b.err
DoubleMin(a, b) == IF DoubleLess(b, a) THEN b ELSE a
DoubleMax(a, b) == IF DoubleLess(a, b) THEN b ELSE a

\* the distance between neighbouring doubles around k/10 + e units, in units:
\* 2^-51 in [2, 4), 2^-52 in [1, 2), 2^-53 in [0.5, 1), 2^-54 in [0.25, 0.5)
Spacing(k, e) ==
    IF ~DoubleLess(Double(k, e), Double(20, 0)) THEN 160
    ELSE IF ~DoubleLess(Double(k, e), Double(10, 0)) THEN 80
    ELSE IF ~DoubleLess(Double(k, e), Double(5, 0)) THEN 40
    ELSE 20

\* round-to-nearest, ties to even, of the real number k/10 + e units
RoundNearestEven(k, e) ==
    LET s == Spacing(k, e)
        at == (k * TwoTo55Mod320 + e + 3200) % (2 * s)
        r == at % s
        odd == at >= s
        up == 2 * r > s \/ (2 * r = s /\ odd)
    IN  Double(k, IF up THEN e + s - r ELSE e - r)

\* prev + 0.1 and prev - 0.1
plusTenth(z) == RoundNearestEven(Tenths(z) + 1, z.err + TenthErr)
minusTenth(z) == RoundNearestEven(Tenths(z) - 1, z.err - TenthErr)

-----------------------------------------------------------------------------
(* CropTool.tsx and Step2Crop.tsx of the passport photo wizard *)

CROP_ASPECT_RATIO == Frac(35, 45)

\* the crop area's size in pixels
Containers == { [x |-> 400, y |-> 360] }

\* the natural sizes of the photos the user may have uploaded
Images ==
    { [x |-> 700, y |-> 900], [x |-> 800, y |-> 600],
      [x |-> 700, y |-> 0], [x |-> 0, y |-> 900] }

\* max-w-full max-h-full object-contain: the image is scaled down, never up,
\* to fit the container with its proportions kept
Display(container, image) ==
    IF image.x <= container.x /\ image.y <= container.y THEN image
    ELSE IF container.x * image.y <= container.y * image.x
    THEN [x |-> container.x, y |-> (image.y * container.x) \div image.x]
    ELSE [x |-> (image.x * container.y) \div image.y, y |-> container.y]

\* the crop box: width min(280, 70% of the container), height by the aspect ratio
CropBox(container) ==
    LET width == IF 280 * 10 <= container.x * 7 THEN 280 ELSE (container.x * 7) \div 10
        height == Over(Whole(width), CROP_ASPECT_RATIO)
    IN  [x |-> width, y |-> height.num \div height.den]

Layouts ==
    { [container |-> c, image |-> i, display |-> Display(c, i), cropBox |-> CropBox(c)] :
        c \in Containers, i \in Images }

\* clientX, clientY of the mouse and touch events
Pointers == { [x |-> 0, y |-> 0], [x |-> 100, y |-> 0], [x |-> 0, y |-> 100] }

\* an updateCropData that takes the image's left and top edge to be the position
updateCropDataFromCorner(z, pos, natural) ==
    LET displayWidth == layout.display.x
        displayHeight == layout.display.y
        cropWidth == layout.cropBox.x
        cropHeight == layout.cropBox.y
        containerCenterX == Frac(layout.container.x, 2)
        containerCenterY == Frac(layout.container.y, 2)
        cropCenterX == containerCenterX
        cropCenterY == containerCenterY
        imageLeft == Whole(pos.x)
        imageTop == Whole(pos.y)
        cropLeftOnImage ==
            Over(Minus(Minus(cropCenterX, Frac(cropWidth, 2)), imageLeft), z)
        cropTopOnImage ==
            Over(Minus(Minus(cropCenterY, Frac(cropHeight, 2)), imageTop), z)
        cropWidthOnImage == Over(Whole(cropWidth), z)
        cropHeightOnImage == Over(Whole(cropHeight), z)
    IN  [x |-> Over(cropLeftOnImage, Whole(displayWidth)),
         y |-> Over(cropTopOnImage, Whole(displayHeight)),
         width |-> Over(cropWidthOnImage, Whole(displayWidth)),
         height |-> Over(cropHeightOnImage, Whole(displayHeight)),
         displayWidth |-> displayWidth,
         displayHeight |-> displayHeight,
         naturalWidth |-> natural.width,
         naturalHeight |-> natural.height,
         zoom |-> z,
         set |-> TRUE]

\* updateCropData: the CropData it hands to onCropChange
updateCropData(z, pos, natural) ==
    LET displayWidth == layout.display.x
        displayHeight == layout.display.y
        cropWidth == layout.cropBox.x
        cropHeight == layout.cropBox.y
        containerCenterX == Frac(layout.container.x, 2)
        containerCenterY == Frac(layout.container.y, 2)
        cropCenterX == containerCenterX
        cropCenterY == containerCenterY
        imageLeft ==
            Minus(Plus(containerCenterX, Whole(pos.x)),
                  Over(Times(Whole(displayWidth), z), Whole(2)))
        imageTop ==
            Minus(Plus(containerCenterY, Whole(pos.y)),
                  Over(Times(Whole(displayHeight), z), Whole(2)))
        cropLeftOnImage ==
            Over(Minus(Minus(cropCenterX, Frac(cropWidth, 2)), imageLeft), z)
        cropTopOnImage ==
            Over(Minus(Minus(cropCenterY, Frac(cropHeight, 2)), imageTop), z)
        cropWidthOnImage == Over(Whole(cropWidth), z)
        cropHeightOnImage == Over(Whole(cropHeight), z)
    IN  [x |-> Over(cropLeftOnImage, Whole(displayWidth)),
         y |-> Over(cropTopOnImage, Whole(displayHeight)),
         width |-> Over(cropWidthOnImage, Whole(displayWidth)),
         height |-> Over(cropHeightOnImage, Whole(displayHeight)),
         displayWidth |-> displayWidth,
         displayHeight |-> displayHeight,
         naturalWidth |-> natural.width,
         naturalHeight |-> natural.height,
         zoom |-> z,
         set |-> TRUE]

\* an effect that calls updateCropData whether or not the image has loaded
cropEffectUnguarded ==
    cropData' = updateCropData(zoom', position', naturalDimensions')

\* the effect on [zoom, position, imageLoaded, naturalDimensions], run after the
\* render that follows a change of them; Step2Crop.handleCropChange stores
\* what updateCropData emits
cropEffect ==
    cropData' =
        IF imageLoaded' /\ naturalDimensions'.width > 0
        THEN updateCropData(zoom', position', naturalDimensions')
        ELSE cropData

handleImageLoad ==
    /\ ~imageLoaded
    /\ naturalDimensions' = [width |-> layout.image.x, height |-> layout.image.y]
    /\ imageLoaded' = TRUE
    /\ UNCHANGED <<layout, zoom, position, isDragging, dragStart, cropToast,
                   cropCompleted, notCrop>>
    /\ cropEffect

\* the zoom button, disabled at zoom >= 3
handleZoomIn ==
    /\ DoubleLess(zoom, Double(30, 0))
    /\ zoom' = DoubleMin(plusTenth(zoom), Double(30, 0))
    /\ UNCHANGED <<layout, position, isDragging, dragStart, imageLoaded,
                   naturalDimensions, cropToast, cropCompleted, notCrop>>
    /\ cropEffect

\* the zoom button, disabled at zoom <= 0.5
handleZoomOut ==
    /\ DoubleLess(Double(5, 0), zoom)
    /\ zoom' = DoubleMax(minusTenth(zoom), Double(5, 0))
    /\ UNCHANGED <<layout, position, isDragging, dragStart, imageLoaded,
                   naturalDimensions, cropToast, cropCompleted, notCrop>>
    /\ cropEffect

handleReset ==
    /\ zoom' = ZoomOne
    /\ position' = Origin
    /\ UNCHANGED <<layout, isDragging, dragStart, imageLoaded, naturalDimensions,
                   cropToast, cropCompleted, notCrop>>
    /\ cropEffect

handleMouseDown(e) ==
    /\ isDragging' = TRUE
    /\ dragStart' = [x |-> e.x - position.x, y |-> e.y - position.y]
    /\ UNCHANGED <<layout, zoom, position, imageLoaded, naturalDimensions, cropData,
                   cropToast, cropCompleted, notCrop>>

handleMouseMove(e) ==
    /\ isDragging
    /\ position' = [x |-> e.x - dragStart.x, y |-> e.y - dragStart.y]
    /\ UNCHANGED <<layout, zoom, isDragging, dragStart, imageLoaded,
                   naturalDimensions, cropToast, cropCompleted, notCrop>>
    /\ cropEffect

\* mouseup or touchend on the document
handleEnd ==
    /\ isDragging
    /\ isDragging' = FALSE
    /\ UNCHANGED <<layout, zoom, position, dragStart, imageLoaded, naturalDimensions,
                   cropData, cropToast, cropCompleted, notCrop>>

\* Step2Crop.handleContinue
cropHandleContinue ==
    /\ IF ~cropData.set
       THEN cropToast' = "Adjust crop area" /\ UNCHANGED cropCompleted
       ELSE IF cropData.naturalWidth = 0 \/ cropData.naturalHeight = 0
       THEN cropToast' = "Image not loaded" /\ UNCHANGED cropCompleted
       ELSE IF \/ Less(cropData.x, Whole(0)) \/ Less(Whole(1), cropData.x)
               \/ Less(cropData.y, Whole(0)) \/ Less(Whole(1), cropData.y)
       THEN cropToast' = "Invalid crop position" /\ UNCHANGED cropCompleted
       ELSE IF \/ AtMost(cropData.width, Whole(0)) \/ Less(Whole(1), cropData.width)
               \/ AtMost(cropData.height, Whole(0)) \/ Less(Whole(1), cropData.height)
       THEN cropToast' = "Invalid crop size" /\ UNCHANGED cropCompleted
       ELSE cropCompleted' = cropData /\ UNCHANGED cropToast
    /\ UNCHANGED <<layout, zoom, position, isDragging, dragStart, imageLoaded,
                   naturalDimensions, cropData, notCrop>>

\* Step2Crop and its CropTool are rendered until onCropComplete is called
CropLive == ~cropCompleted.set

ImageLoad == CropLive /\ handleImageLoad
ZoomInClick == CropLive /\ handleZoomIn
ZoomOutClick == CropLive /\ handleZoomOut
ResetClick == CropLive /\ handleReset
MouseDown == CropLive /\ ~isDragging /\ \E e \in Pointers : handleMouseDown(e)
MouseMove ==
    /\ CropLive
    /\ \E e \in Pointers :
          /\ Abs(e.x - dragStart.x) <= MaxPan
          /\ Abs(e.y - dragStart.y) <= MaxPan
          /\ handleMouseMove(e)
MouseUp == CropLive /\ handleEnd
\* the Continue button, disabled while cropData is null
CropContinueClick == CropLive /\ cropData.set /\ cropHandleContinue

InitCrop ==
    /\ OnlyCrop
    /\ layout \in Layouts
    /\ zoom = ZoomOne
    /\ position = Origin
    /\ isDragging = FALSE
    /\ dragStart = Origin
    /\ imageLoaded = FALSE
    /\ naturalDimensions = [width |-> 0, height |-> 0]
    /\ cropData = NoCrop
    /\ cropToast = ""
    /\ cropCompleted = NoCrop

NextCrop ==
    \/ ImageLoad
    \/ ZoomInClick
    \/ ZoomOutClick
    \/ ResetClick
    \/ MouseDown
    \/ MouseMove
    \/ MouseUp
    \/ CropContinueClick

SpecCrop == InitCrop /\ [][NextCrop]_vars

-----------------------------------------------------------------------------
(* Claims about the crop rectangle *)

\* C18: the rectangle handed to onCropComplete lies inside the image:
\* 0 <= x, x + width <= 1, 0 <= y and y + height <= 1; a rectangle violating
\* this is rejected by handleContinue.
C18_CompletedInsideImage ==
    cropCompleted.set =>
        /\ AtMost(Whole(0), cropCompleted.x)
        /\ AtMost(Plus(cropCompleted.x, cropCompleted.width), Whole(1))
        /\ AtMost(Whole(0), cropCompleted.y)
        /\ AtMost(Plus(cropCompleted.y, cropCompleted.height), Whole(1))

\* C19: with zoom 1, no pan and a crop box as wide and as high as the image
\* is displayed, the emitted rectangle is x = 0, y = 0, width = 1, height = 1.
C19_CropIdentity ==
    (/\ cropData.set
     /\ zoom = ZoomOne
     /\ position = [x |-> 0, y |-> 0]
     /\ layout.cropBox = layout.display)
        => /\ cropData.x = Whole(0)
           /\ cropData.y = Whole(0)
           /\ cropData.width = Whole(1)
           /\ cropData.height = Whole(1)

C19_Witness ==
    /\ cropData.set
    /\ zoom = ZoomOne
    /\ position = [x |-> 0, y |-> 0]
    /\ layout.cropBox = layout.display
    /\ cropData.width = Whole(1)
    /\ cropData.naturalWidth = 700

-----------------------------------------------------------------------------
(* Step2Processing.tsx: upload of the batch, then one processing call per item *)

\* the ids of the documents of the upload queue, in upload order
UploadedIds == [i \in 1..MaxDocs |-> <<"doc", i>>]

\* the documentType values the backend classifies the items as
ProcessedTypes == { <<"aadhaar", "_front">>, <<"pan_card">> }

\* the id the backend's upload response gives the document
ServerId(originalId) == <<"srv", originalId>>

SetStatus(documents, originalId, status, progress) ==
    [k \in DOMAIN documents |->
        IF documents[k].originalId = originalId
        THEN [documents[k] EXCEPT !.status = status, !.progress = progress]
        ELSE documents[k]]

\* the end of a loop iteration: the next item is marked as processing and its
\* request is sent, or the loop ends and the timer is set
nextIteration(documents, cleanedNow) ==
    /\ cleaned' = cleanedNow
    /\ overallProgress' = Frac(procIndex * 100, Len(uploadedDocuments))
    /\ IF procIndex < Len(uploadedDocuments)
       THEN /\ procIndex' = procIndex + 1
            /\ processingDocs' =
                 SetStatus(documents, uploadedDocuments[procIndex + 1], "processing", 50)
            /\ UNCHANGED <<procPc, cleanedDocs, procTimer>>
       ELSE /\ processingDocs' = documents
            /\ cleanedDocs' = cleanedNow
            /\ procPc' = "done"
            /\ procTimer' = (Len(cleanedNow) > 0)
            /\ UNCHANGED procIndex

\* useEffect(..., []): processDocuments up to the await of uploadDocuments
procMount ==
    /\ procPc = "unmounted"
    /\ processingDocs' =
         [k \in DOMAIN uploadedDocuments |->
            [id |-> <<"processing_", uploadedDocuments[k]>>,
             originalId |-> uploadedDocuments[k], status |-> "queued", progress |-> 0]]
    /\ procPc' = "uploading"
    /\ UNCHANGED <<uploadedDocuments, cleanedDocs, cleaned, overallProgress, stats,
                   procIndex, procToast, procTimer, processedWith, notProc>>

\* uploadDocuments answered with one entry per file: the loop starts
uploadSucceeds ==
    /\ procPc = "uploading"
    /\ procPc' = "processing"
    /\ procIndex' = 1
    /\ processingDocs' = SetStatus(processingDocs, uploadedDocuments[1], "processing", 50)
    /\ UNCHANGED <<uploadedDocuments, cleanedDocs, cleaned, overallProgress, stats,
                   procToast, procTimer, processedWith, notProc>>

\* uploadDocuments failed: processDocuments returns
uploadFails ==
    /\ procPc = "uploading"
    /\ procPc' = "aborted"
    /\ procToast' = "Upload failed"
    /\ UNCHANGED <<uploadedDocuments, processingDocs, cleanedDocs, cleaned,
                   overallProgress, stats, procIndex, procTimer, processedWith, notProc>>

UploadResolves == uploadSucceeds \/ uploadFails

\* processDocument answered for item procIndex with a classified document
processSucceeds(documentType) ==
    /\ procPc = "processing"
    /\ LET originalId == uploadedDocuments[procIndex]
           category == categorizeDocument(documentType)
           cleanedDoc == [id |-> ServerId(originalId), originalId |-> originalId,
                          detectedType |-> documentType, detectedCategory |-> category]
       IN  /\ stats' = [stats EXCEPT
                          !.total = @ + 1,
                          !.idCards = IF category = "id_card" THEN @ + 1 ELSE @,
                          !.singleDocuments =
                              IF category = "single_document" THEN @ + 1 ELSE @]
           /\ nextIteration(SetStatus(processingDocs, originalId, "complete", 100),
                            Append(cleaned, cleanedDoc))
    /\ UNCHANGED <<uploadedDocuments, procToast, processedWith, notProc>>

\* a failure that ends the loop
processFailsAborts ==
    /\ procPc = "processing"
    /\ stats' = [stats EXCEPT !.failed = @ + 1]
    /\ processingDocs' =
         SetStatus(processingDocs, uploadedDocuments[procIndex], "failed", 50)
    /\ cleanedDocs' = cleaned
    /\ procPc' = "done"
    /\ procTimer' = (Len(cleaned) > 0)
    /\ UNCHANGED <<uploadedDocuments, cleaned, overallProgress, procIndex, procToast,
                   processedWith, notProc>>

\* processDocument failed for item procIndex: the catch block
processFails ==
    /\ procPc = "processing"
    /\ stats' = [stats EXCEPT !.failed = @ + 1]
    /\ nextIteration(SetStatus(processingDocs, uploadedDocuments[procIndex], "failed", 50),
                     cleaned)
    /\ UNCHANGED <<uploadedDocuments, procToast, processedWith, notProc>>

ProcessResolves ==
    \/ \E documentType \in ProcessedTypes : processSucceeds(documentType)
    \/ processFails

\* the 1 s timer: onProcessingComplete(cleaned)
processingTimer ==
    /\ procTimer
    /\ procTimer' = FALSE
    /\ processedWith' = [called |-> TRUE, cleaned |-> cleaned]
    /\ UNCHANGED <<uploadedDocuments, processingDocs, cleanedDocs, cleaned,
                   overallProgress, stats, procPc, procIndex, procToast, notProc>>

InitProcessing ==
    /\ OnlyProc
    /\ \E n \in 1..MaxDocs : uploadedDocuments = SubSeq(UploadedIds, 1, n)
    /\ processingDocs = <<>>
    /\ cleanedDocs = <<>>
    /\ cleaned = <<>>
    /\ overallProgress = Whole(0)
    /\ stats = InitialStats
    /\ procPc = "unmounted"
    /\ procIndex = 0
    /\ procToast = ""
    /\ procTimer = FALSE
    /\ processedWith = [called |-> FALSE, cleaned |-> <<>>]

NextProcessing ==
    \/ procMount
    \/ UploadResolves
    \/ ProcessResolves
    \/ processingTimer

SpecProcessing == InitProcessing /\ [][NextProcessing]_vars

\* the effect runs, every request is answered and the timer fires
SpecProcessingFair ==
    /\ SpecProcessing
    /\ WF_vars(procMount)
    /\ WF_vars(UploadResolves)
    /\ WF_vars(ProcessResolves)
    /\ WF_vars(processingTimer)

-----------------------------------------------------------------------------
(* Claims about batch processing *)

StatusOf(originalId) ==
    LET k == CHOOSE k \in DOMAIN processingDocs : processingDocs[k].originalId = originalId
    IN  processingDocs[k].status

Settled == \A k \in DOMAIN processingDocs : processingDocs[k].status \in {"complete", "failed"}

OriginalIds(documents) == [k \in DOMAIN documents |-> documents[k].originalId]

\* C20: once the upload has succeeded, at most one item is 'processing' and
\* the items before it are settled while those after it are queued (upload
\* order); the items collected as cleaned are exactly the completed ones in
\* upload order, also after a failure; when the loop has ended the cleaned
\* list is that collection; and every item eventually is 'complete' or 'failed'.
C20_BatchSurvivesFailures ==
    /\ [](procPc \in {"processing", "done"} =>
            /\ Cardinality({k \in DOMAIN processingDocs :
                              processingDocs[k].status = "processing"}) <= 1
            /\ \A k \in DOMAIN processingDocs :
                  /\ (k < procIndex => processingDocs[k].status \in {"complete", "failed"})
                  /\ (k > procIndex => processingDocs[k].status = "queued")
            /\ OriginalIds(cleaned) =
                 SelectSeq(uploadedDocuments, LAMBDA id : StatusOf(id) = "complete")
            /\ (procPc = "done" => cleanedDocs = cleaned /\ Settled))
    /\ (procPc = "processing" ~> (procPc = "done" /\ Settled))

C20_Witness ==
    /\ procPc = "done"
    /\ Len(uploadedDocuments) = 3
    /\ processingDocs[1].status = "failed"
    /\ processingDocs[2].status = "complete"
    /\ processingDocs[3].status = "complete"
    /\ OriginalIds(cleanedDocs) = <<uploadedDocuments[2], uploadedDocuments[3]>>

\* the numbers the statistics card shows
Displayed ==
    [Processed |-> stats.total, IDCards |-> stats.idCards,
     SingleDocs |-> stats.singleDocuments, Success |-> stats.total - stats.failed,
     Failed |-> stats.failed]

WithStatus(status) ==
    Cardinality({k \in DOMAIN processingDocs : processingDocs[k].status = status})

\* C21: at every moment 'Processed' is the number of items attempted so far
\* (completed or failed), 'Failed' the number of failed items, and 'Success'
\* the number of completed items, which is never negative.
C21_CountersConsistent ==
    /\ Displayed.Processed = WithStatus("complete") + WithStatus("failed")
    /\ Displayed.Failed = WithStatus("failed")
    /\ Displayed.Success = WithStatus("complete")
    /\ Displayed.Success >= 0

-----------------------------------------------------------------------------
(* Claims about layout changes and previews *)

\* plan(pairedCount, singleCount, layoutType).totalPages as the layouts are
\* described: two slots per page, or one
PlanPages(layoutType) ==
    IF layoutType = "id_layout"
    THEN HalfRoundedUp(printPaired + printSingles)
    ELSE printPaired + printSingles

\* C22: every step that chooses a layout (the mount effect, a click on a
\* layout button) sets totalPages to the plan of the chosen layout and adds
\* a preview request for that layout; and once the mount effect has run
\* totalPages is the plan of the current layout.
C22_LayoutChoiceRecomputes ==
    /\ [][ (setupPc # setupPc' /\ setupPc = "unmounted")
           \/ printConfig'.layoutType # printConfig.layoutType
           \/ previewsIssued' # previewsIssued
           => /\ printConfig'.totalPages = PlanPages(printConfig'.layoutType)
              /\ previewCalls' = Append(previewCalls, printConfig'.layoutType)
              /\ previewsIssued' = previewsIssued + 1 ]_vars
    /\ [](setupPc # "unmounted" =>
            printConfig.totalPages = PlanPages(printConfig.layoutType))

C22_Witness ==
    /\ setupPc = "mounted"
    /\ printPaired = 1
    /\ printSingles = 2
    /\ previewsIssued = 2
    /\ printConfig.layoutType = "id_layout"
    /\ printConfig.totalPages = 2
    /\ Len(previewCalls) = 2

\* C27: on the step that hands the PrintConfig to onContinue its layoutPreview
\* is the answer to a request for its layoutType and no preview request is
\* pending.
C27_ContinueWithCurrentPreview ==
    [][ (setupPc = "mounted" /\ setupPc' = "continued") =>
          /\ continuedWith'.layoutPreview = PreviewUrls(continuedWith'.layoutType)
          /\ previewCalls = <<>> ]_vars

-----------------------------------------------------------------------------
(* Claims about the crop tool's emissions and its zoom *)

\* the left edge of the crop box as a fraction of the displayed image, for a
\* zoom z and a horizontal pan p: (displayWidth * z / 2 - cropWidth / 2 - p)
\* over displayWidth * z
LeftEdge(z, p) ==
    Over(Minus(Minus(Times(Frac(layout.display.x, 2), z), Frac(layout.cropBox.x, 2)),
               Whole(p)),
         Times(z, Whole(layout.display.x)))

\* C23: no rectangle is emitted before the image has loaded with a natural
\* width above 0; from then on every change of zoom or pan emits the rectangle
\* recomputed for the new zoom and pan, carrying the image's natural
\* dimensions; and no rectangle with naturalWidth or naturalHeight 0 is handed
\* to onCropComplete.
C23_EmissionContract ==
    /\ [](cropData.set => imageLoaded /\ naturalDimensions.width > 0)
    /\ [][ (/\ imageLoaded'
            /\ naturalDimensions'.width > 0
            /\ (zoom' # zoom \/ position' # position))
           => /\ cropData'.set
              /\ cropData'.zoom = zoom'
              /\ cropData'.x = LeftEdge(zoom', position'.x)
              /\ cropData'.width =
                    Over(Over(Whole(layout.cropBox.x), zoom'), Whole(layout.display.x))
              /\ cropData'.naturalWidth = naturalDimensions'.width
              /\ cropData'.naturalHeight = naturalDimensions'.height ]_vars
    /\ [](cropCompleted.set =>
            cropCompleted.naturalWidth > 0 /\ cropCompleted.naturalHeight > 0)

C23_Witness ==
    /\ cropToast = "Image not loaded"
    /\ cropData.set
    /\ cropData.naturalWidth = 700
    /\ cropData.naturalHeight = 0
    /\ cropData.zoom = Double(12, 64)
    /\ position = [x |-> 100, y |-> 0]
    /\ ~cropCompleted.set

\* C24: the zoom stays within [0.5, 3.0]; at 3.0 it does not grow and at 0.5
\* it does not shrink; every other change of the zoom is a step of 0.1 (to
\* within the rounding of a double: the nearest tenth moves by one), or the
\* reset to zoom 1 with the pan at (0, 0).
C24_ZoomSteps ==
    /\ [](~DoubleLess(zoom, Double(5, 0)) /\ ~DoubleLess(Double(30, 0), zoom))
    /\ [][ /\ zoom = Double(30, 0) => ~DoubleLess(zoom, zoom')
           /\ zoom = Double(5, 0) => ~DoubleLess(zoom', zoom)
           /\ zoom' # zoom =>
                \/ Abs(Tenths(zoom') - Tenths(zoom)) = 1
                \/ zoom' = ZoomOne /\ position' = Origin ]_vars

-----------------------------------------------------------------------------
(* Claim about the size of the upload queue *)

\* C26: the upload queue never holds more than MAX_BATCH_SIZE (200)
\* documents, whatever selections, removals and clear-alls happen and also
\* when a selection starts while an earlier one still awaits its thumbnails.
C26_QueueWithinLimit == Len(uploadQueue) <= MAX_BATCH_SIZE

-----------------------------------------------------------------------------
(* Claim about the documents of the pairing stage *)

\* the documents the seeding placed in paired and unpaired
Seeded ==
    { autoPairResult.paired[i].frontDoc : i \in 1..Len(autoPairResult.paired) }
    \cup { autoPairResult.paired[i].backDoc : i \in 1..Len(autoPairResult.paired) }
    \cup { autoPairResult.unpaired[i].document : i \in 1..Len(autoPairResult.unpaired) }

\* the number of candidates of unpaired that hold document d
Candidates(unpaired, d) ==
    Cardinality({ i \in 1..Len(unpaired) : unpaired[i].document.id = d.id })

\* C25: after a successful seed, whatever selections and unpairs follow and
\* whatever ids the pairs received, every seeded document occurs exactly once
\* across the fronts and backs of paired and the candidates of unpaired.
C25_DocumentConservation ==
    autoPairResult.state = "success" =>
        \A d \in Seeded : Places(pairedIDs, d) + Candidates(unpairedIDs, d) = 1

-----------------------------------------------------------------------------
(* Index.tsx: the wizard's navigation, together with the callbacks of
   Step2Processing and Step3Pairing that run after a delay.  A step's
   component is mounted when the wizard arrives at the step; its loop and its
   timers are never cancelled, and the onProcessingComplete or
   onPairingComplete they call is the one of the render that mounted the
   component, whose handleNext reads that render's currentStep. *)

\* at most MaxNavigations clicks on Back, Continue and Start New Batch
MaxNavigations == 4

\* the documents Step1Upload hands over
WizardUploads == { <<UploadedIds[1]>> }

\* the lists processDocuments may end with: nothing processed, a single
\* document, the two sides of an ID card
WizardCleaned == { <<>>, <<CleanedDoc(6)>>, <<CleanedDoc(1), CleanedDoc(2)>> }

\* the configuration Step5PrintSetup hands over
WizardConfigs == { [InitialPrintConfig EXCEPT !.totalPages = 1] }

\* the pairs Step3Pairing hands over for the documents it was given
WizardPairs(documents) ==
    LET idCards == filterByCategory(documents, "id_card")
    IN  IF Len(idCards) < 2 THEN <<>>
        ELSE << [id |-> <<"pair", 0>>, frontDoc |-> idCards[1], backDoc |-> idCards[2],
                 confidence |-> 100, pairingMethod |-> "manual", status |-> "paired"] >>

\* what mounting the component of a step starts: Step2Processing runs
\* processDocuments; Step3Pairing, given no ID card, schedules its 500 ms timer
mountEffects(step, documents) ==
    IF step = 2
    THEN << [kind |-> "processingLoop", step |-> 2, cleaned |-> <<>>] >>
    ELSE IF step = 3 /\ Len(filterByCategory(documents, "id_card")) = 0
    THEN << [kind |-> "pairingTimer", step |-> 3,
             cleaned |-> filterByCategory(documents, "single_document")] >>
    ELSE <<>>

\* the render after a handler: a change of currentStep mounts the new step
rendered(remaining) ==
    lateCallbacks' = remaining \o
        (IF currentStep' # currentStep
         THEN mountEffects(currentStep', cleanedDocuments')
         ELSE <<>>)

handleBack(closureStep) ==
    currentStep' = IF closureStep > 1 THEN closureStep - 1 ELSE currentStep

indexHandleReset ==
    /\ currentStep' = 1
    /\ uploadedDocuments' = <<>>
    /\ cleanedDocuments' = <<>>
    /\ wizardPaired' = <<>>
    /\ wizardSingles' = <<>>
    /\ continuedWith' = NoConfig

handleUploadComplete(documents) ==
    /\ uploadedDocuments' = documents
    /\ handleNext(currentStep)

handleProcessingComplete(list, closureStep) ==
    /\ cleanedDocuments' = list
    /\ handleNext(closureStep)

handleReviewComplete == handleNext(currentStep)

handlePrintSetupComplete(config) ==
    /\ continuedWith' = config
    /\ handleNext(currentStep)

\* Step1Upload's Continue
UploadContinue ==
    /\ navigations < MaxNavigations
    /\ currentStep = 1
    /\ \E documents \in WizardUploads : handleUploadComplete(documents)
    /\ navigations' = navigations + 1
    /\ fired' = NoLate
    /\ UNCHANGED <<cleanedDocuments, wizardPaired, wizardSingles, continuedWith,
                   completeCalls, notWizard>>
    /\ rendered(lateCallbacks)

\* the Back button of StepNavigation, rendered on the steps 2 to 5
BackClick ==
    /\ navigations < MaxNavigations
    /\ currentStep > 1
    /\ currentStep < 6
    /\ handleBack(currentStep)
    /\ navigations' = navigations + 1
    /\ fired' = NoLate
    /\ UNCHANGED <<uploadedDocuments, cleanedDocuments, wizardPaired, wizardSingles,
                   continuedWith, completeCalls, notWizard>>
    /\ rendered(lateCallbacks)

\* processDocuments ends, mounted or not: with something processed it
\* schedules the 1 s timer
loopEnds(k) ==
    /\ lateCallbacks[k].kind = "processingLoop"
    /\ \E list \in WizardCleaned :
          lateCallbacks' =
              IF Len(list) > 0
              THEN [lateCallbacks EXCEPT
                      ![k] = [kind |-> "processingTimer", step |-> 2, cleaned |-> list]]
              ELSE RemoveAt(lateCallbacks, k)
    /\ fired' = lateCallbacks[k]
    /\ UNCHANGED <<currentStep, uploadedDocuments, cleanedDocuments, wizardPaired,
                   wizardSingles, continuedWith, completeCalls, navigations,
                   notWizard>>

ProcessingLoopEnds == \E k \in 1..Len(lateCallbacks) : loopEnds(k)

\* the 1 s timer of Step2Processing fires
processingTimerFires(k) ==
    /\ lateCallbacks[k].kind = "processingTimer"
    /\ handleProcessingComplete(lateCallbacks[k].cleaned, lateCallbacks[k].step)
    /\ fired' = lateCallbacks[k]
    /\ UNCHANGED <<uploadedDocuments, wizardPaired, wizardSingles, continuedWith,
                   completeCalls, navigations, notWizard>>
    /\ rendered(RemoveAt(lateCallbacks, k))

ProcessingTimerFires == \E k \in 1..Len(lateCallbacks) : processingTimerFires(k)

\* the 500 ms timer of Step3Pairing fires
pairingTimerFires(k) ==
    /\ lateCallbacks[k].kind = "pairingTimer"
    /\ onPairingComplete(<<>>, lateCallbacks[k].cleaned)
    /\ fired' = lateCallbacks[k]
    /\ UNCHANGED <<uploadedDocuments, cleanedDocuments, continuedWith, navigations,
                   notWizard>>
    /\ rendered(RemoveAt(lateCallbacks, k))

PairingTimerFires == \E k \in 1..Len(lateCallbacks) : pairingTimerFires(k)

\* Step3Pairing's Continue
PairingContinue ==
    /\ navigations < MaxNavigations
    /\ currentStep = 3
    /\ onPairingComplete(WizardPairs(cleanedDocuments),
                         filterByCategory(cleanedDocuments, "single_document"))
    /\ navigations' = navigations + 1
    /\ fired' = NoLate
    /\ UNCHANGED <<uploadedDocuments, cleanedDocuments, continuedWith, notWizard>>
    /\ rendered(lateCallbacks)

\* Step4Review's Continue
ReviewContinue ==
    /\ navigations < MaxNavigations
    /\ currentStep = 4
    /\ handleReviewComplete
    /\ navigations' = navigations + 1
    /\ fired' = NoLate
    /\ UNCHANGED <<uploadedDocuments, cleanedDocuments, wizardPaired, wizardSingles,
                   continuedWith, completeCalls, notWizard>>
    /\ rendered(lateCallbacks)

\* Step5PrintSetup's Continue
PrintSetupContinue ==
    /\ navigations < MaxNavigations
    /\ currentStep = 5
    /\ \E config \in WizardConfigs : handlePrintSetupComplete(config)
    /\ navigations' = navigations + 1
    /\ fired' = NoLate
    /\ UNCHANGED <<uploadedDocuments, cleanedDocuments, wizardPaired, wizardSingles,
                   completeCalls, notWizard>>
    /\ rendered(lateCallbacks)

\* Step6Confirmation's Start New Batch
StartNewBatch ==
    /\ navigations < MaxNavigations
    /\ currentStep = 6
    /\ indexHandleReset
    /\ navigations' = navigations + 1
    /\ fired' = NoLate
    /\ UNCHANGED <<completeCalls, notWizard>>
    /\ rendered(lateCallbacks)

\* Index as constructed: the wizard on step 1
InitWizard ==
    /\ currentStep = 1
    /\ uploadedDocuments = <<>>
    /\ cleanedDocuments = <<>>
    /\ wizardPaired = <<>>
    /\ wizardSingles = <<>>
    /\ continuedWith = NoConfig
    /\ lateCallbacks = mountEffects(currentStep, cleanedDocuments)
    /\ fired = NoLate
    /\ navigations = 0
    /\ completeCalls = 0
    /\ pairedIDs = <<>>
    /\ unpairedIDs = <<>>
    /\ singleDocs = <<>>
    /\ selectedForPairing = NoSelection
    /\ isPairing = FALSE
    /\ pc = "mounted"
    /\ timerPending = FALSE
    /\ autoPairResult = NoResult
    /\ now = 0
    /\ toast = ""
    /\ lastOp = Op("mount", "", "", <<"none", 0>>)
    /\ roundTrip = NoRoundTrip
    /\ cpArgs = <<NoDoc, NoDoc>>
    /\ cpResult = <<FALSE, FALSE, FALSE>>
    /\ CallIdle
    /\ printPaired = 0
    /\ printSingles = 0
    /\ printConfig = InitialPrintConfig
    /\ isGeneratingPreview = FALSE
    /\ previewCalls = <<>>
    /\ previewsIssued = 0
    /\ setupPc = "unmounted"
    /\ setupToast = ""
    /\ UploadIdle
    /\ CropIdle
    /\ processingDocs = <<>>
    /\ cleanedDocs = <<>>
    /\ cleaned = <<>>
    /\ overallProgress = [num |-> 0, den |-> 1]
    /\ stats = InitialStats
    /\ procPc = "unmounted"
    /\ procIndex = 0
    /\ procToast = ""
    /\ procTimer = FALSE
    /\ processedWith = [called |-> FALSE, cleaned |-> <<>>]
    /\ PrintIdle
    /\ CloudIdle

NextWizard ==
    \/ UploadContinue
    \/ BackClick
    \/ ProcessingLoopEnds
    \/ ProcessingTimerFires
    \/ PairingTimerFires
    \/ PairingContinue
    \/ ReviewContinue
    \/ PrintSetupContinue
    \/ StartNewBatch

SpecWizard == InitWizard /\ [][NextWizard]_vars

\* C28: a late callback of Step2Processing or Step3Pairing (the processing
\* loop, its 1 s timer, the 500 ms timer) that runs while the wizard is not
\* on the step that scheduled it leaves currentStep unchanged.
C28_LateCallbackIgnored ==
    [][ (fired'.kind # "" /\ fired'.step # currentStep)
            => currentStep' = currentStep ]_vars

-----------------------------------------------------------------------------
(* Step6Confirmation.tsx: handlePrint and the polling of the print job *)

\* at most MaxPrintRuns clicks on Print, Print Again and Try Again
MaxPrintRuns == 2

\* the interval ticks at most MaxPollTicks times
MaxPollTicks == 3

\* what a status request may come back with: the job's status, or "error"
\* for a request that failed or carried no data
PollOutcomes == {"printing", "complete", "failed", "error"}
TerminalOutcomes == {"complete", "failed", "error"}

\* the currentPage a status response reports
Pages == {1}

\* the catch block of handlePrint
printFailed(message) ==
    /\ printStatus' = "failed"
    /\ printError' = message
    /\ printToast' = "Print failed"
    /\ printPc' = "idle"

\* a clearInterval that does not stop the interval
clearIntervalNoOp(current) == pollInterval' = pollInterval

\* clearInterval(interval) in a poll; current: the poll belongs to the
\* handlePrint call whose interval is the active one
clearInterval(current) == pollInterval' = (IF current THEN FALSE ELSE pollInterval)

\* handlePrint up to its first await; the buttons that call it are rendered
\* in every view but the printing one
PrintClick ==
    /\ printRun < MaxPrintRuns
    /\ printStatus # "printing"
    /\ printStatus' = "printing"
    /\ printPc' = "creating"
    /\ printRun' = printRun + 1
    /\ printLog' = [created |-> "pending", sent |-> "pending", polls |-> <<>>]
    /\ UNCHANGED <<printError, printJob, pollInterval, pollsInFlight, pollTicks,
                   printToast, notPrint>>

\* apiService.createPrintJob has answered
createResolves ==
    /\ printPc = "creating"
    /\ \E success \in BOOLEAN :
          IF success
          THEN /\ printJob' = [id |-> <<"job", printRun>>, currentPage |-> 0]
               /\ printPc' = "sending"
               /\ printLog' = [printLog EXCEPT !.created = "ok"]
               /\ UNCHANGED <<printStatus, printError, printToast>>
          ELSE /\ printFailed("Failed to create print job")
               /\ printLog' = [printLog EXCEPT !.created = "failed"]
               /\ UNCHANGED printJob
    /\ UNCHANGED <<pollInterval, pollsInFlight, printRun, pollTicks, notPrint>>

\* apiService.sendToPrinter has answered; on success pollPrintStatus starts
\* the interval
sendResolves ==
    /\ printPc = "sending"
    /\ \E success \in BOOLEAN :
          IF success
          THEN /\ printPc' = "polling"
               /\ pollInterval' = TRUE
               /\ printLog' = [printLog EXCEPT !.sent = "ok"]
               /\ UNCHANGED <<printStatus, printError, printToast>>
          ELSE /\ printFailed("Failed to send to printer")
               /\ printLog' = [printLog EXCEPT !.sent = "failed"]
               /\ UNCHANGED pollInterval
    /\ UNCHANGED <<printJob, pollsInFlight, printRun, pollTicks, notPrint>>

\* the interval fires: a status request is started
pollTick ==
    /\ pollInterval
    /\ pollTicks < MaxPollTicks
    /\ pollsInFlight' = Append(pollsInFlight, printRun)
    /\ pollTicks' = pollTicks + 1
    /\ UNCHANGED <<printStatus, printError, printJob, printPc, pollInterval,
                   printRun, printLog, printToast, notPrint>>

\* the k-th status request in flight has answered; resolve and reject act on
\* the promise handlePrint awaits only while that promise is unsettled
pollResolves(k, outcome) ==
    LET current == pollsInFlight[k] = printRun
        awaited == current /\ printPc = "polling"
    IN  /\ pollsInFlight' = RemoveAt(pollsInFlight, k)
        /\ printLog' = IF current
                       THEN [printLog EXCEPT !.polls = Append(@, outcome)]
                       ELSE printLog
        /\ IF outcome = "complete"
           THEN /\ clearInterval(current)
                /\ IF awaited
                   THEN /\ printStatus' = "complete"
                        /\ printToast' = "Print job complete"
                        /\ printPc' = "idle"
                        /\ UNCHANGED printError
                   ELSE UNCHANGED <<printStatus, printError, printToast, printPc>>
                /\ UNCHANGED printJob
           ELSE IF outcome \in {"failed", "error"}
           THEN /\ clearInterval(current)
                /\ IF awaited
                   THEN printFailed(IF outcome = "failed"
                                    THEN "Print job failed"
                                    ELSE "Failed to get status")
                   ELSE UNCHANGED <<printStatus, printError, printToast, printPc>>
                /\ UNCHANGED printJob
           ELSE /\ \E page \in Pages :
                      printJob' = IF printJob # NoJob
                                  THEN [printJob EXCEPT !.currentPage = page]
                                  ELSE printJob
                /\ UNCHANGED <<printStatus, printError, printToast, printPc,
                               pollInterval>>
        /\ UNCHANGED <<printRun, pollTicks, notPrint>>

PollResolves ==
    \E k \in 1..Len(pollsInFlight), outcome \in PollOutcomes : pollResolves(k, outcome)

InitPrint ==
    /\ OnlyPrint
    /\ PrintIdle

NextPrint ==
    \/ PrintClick
    \/ createResolves
    \/ sendResolves
    \/ pollTick
    \/ PollResolves

SpecPrint == InitPrint /\ [][NextPrint]_vars

\* a poll of the current handlePrint call has observed a terminal outcome
TerminalObserved(log) == \E i \in 1..Len(log.polls) : log.polls[i] \in TerminalOutcomes

\* C29: polling stops as soon as a poll observes 'complete' or 'failed' or a
\* status request fails: the interval is cleared in that step and no status
\* request is started afterwards; the UI status becomes 'complete' only when
\* createPrintJob and sendToPrinter succeeded and a poll observed 'complete';
\* in every other terminating case it becomes 'failed' with an error recorded.
C29_PollingContract ==
    /\ [][ /\ (printRun' = printRun /\ ~TerminalObserved(printLog)
                  /\ TerminalObserved(printLog'))
              => /\ ~pollInterval'
                 /\ printStatus' = (IF Last(printLog'.polls) = "complete"
                                    THEN "complete" ELSE "failed")
           /\ pollTicks' # pollTicks => ~TerminalObserved(printLog)
           /\ (printStatus' # printStatus /\ printStatus' = "complete")
              => /\ printLog'.created = "ok"
                 /\ printLog'.sent = "ok"
                 /\ Last(printLog'.polls) = "complete"
           /\ (printRun' = printRun /\ printLog' # printLog
                  /\ "failed" \in {printLog'.created, printLog'.sent})
              => printStatus' = "failed"
         ]_vars
    /\ [](TerminalObserved(printLog) => ~pollInterval)
    /\ [](printStatus = "failed" => printError # "")

C29_Witness ==
    /\ printStatus = "complete"
    /\ printLog.polls = <<"printing", "complete", "failed">>
    /\ ~pollInterval
    /\ pollTicks = 3
    /\ pollsInFlight = <<>>
    /\ printJob.currentPage = 1

-----------------------------------------------------------------------------
(* The ApiService of the passport photo wizard: Cloudinary first, the Python
   backend as the fallback *)

maxCloudinaryAttempts == 3

\* at most MaxApiCalls calls of uploadPhoto and processPhoto
MaxApiCalls == 4

\* processPhoto's imageId: ids of the Python backend start with img_
ImageIds == { <<"img_", 1>>, <<"cloudinary", 1>> }
isCloudinaryImage(imageId) == imageId[1] # "img_"

\* the condition under which a call tries Cloudinary first
triesCloudinary ==
    cloudinaryEnabled /\ cloudinaryFallbackCount < maxCloudinaryAttempts

\* uploadPhoto up to its first await
uploadPhoto ==
    /\ apiCalls < MaxApiCalls
    /\ apiCalls' = apiCalls + 1
    /\ IF triesCloudinary
       THEN /\ cloudinaryCalls' = Append(cloudinaryCalls, "uploadPhoto")
            /\ apiOp' = [name |-> "cloudinary", call |-> "uploadPhoto", outcome |-> ""]
            /\ UNCHANGED pythonCalls
       ELSE /\ pythonCalls' = Append(pythonCalls, "uploadPhoto")
            /\ apiOp' = [name |-> "python", call |-> "uploadPhoto", outcome |-> ""]
            /\ UNCHANGED cloudinaryCalls
    /\ UNCHANGED <<cloudinaryEnabled, cloudinaryFallbackCount, notCloud>>

\* processPhoto up to its first await
processPhoto(imageId) ==
    /\ apiCalls < MaxApiCalls
    /\ apiCalls' = apiCalls + 1
    /\ IF isCloudinaryImage(imageId) /\ triesCloudinary
       THEN /\ cloudinaryCalls' = Append(cloudinaryCalls, "processPhoto")
            /\ apiOp' = [name |-> "cloudinary", call |-> "processPhoto", outcome |-> ""]
            /\ UNCHANGED pythonCalls
       ELSE /\ pythonCalls' = Append(pythonCalls, "processPhoto")
            /\ apiOp' = [name |-> "python", call |-> "processPhoto", outcome |-> ""]
            /\ UNCHANGED cloudinaryCalls
    /\ UNCHANGED <<cloudinaryEnabled, cloudinaryFallbackCount, notCloud>>

ProcessPhoto == \E imageId \in ImageIds : processPhoto(imageId)

\* the k-th pending Cloudinary call has answered: a success resets the
\* counter and is returned; a failure counts and the call goes on to Python
cloudinaryResolves(k, success) ==
    /\ cloudinaryCalls' = RemoveAt(cloudinaryCalls, k)
    /\ IF success
       THEN /\ cloudinaryFallbackCount' = 0
            /\ apiOp' = [name |-> "cloudinary", call |-> cloudinaryCalls[k],
                         outcome |-> "success"]
            /\ UNCHANGED pythonCalls
       ELSE /\ cloudinaryFallbackCount' = cloudinaryFallbackCount + 1
            /\ pythonCalls' = Append(pythonCalls, cloudinaryCalls[k])
            /\ apiOp' = [name |-> "cloudinary", call |-> cloudinaryCalls[k],
                         outcome |-> "failure"]
    /\ UNCHANGED <<cloudinaryEnabled, apiCalls, notCloud>>

CloudinaryResolves ==
    \E k \in 1..Len(cloudinaryCalls), success \in BOOLEAN : cloudinaryResolves(k, success)

\* the k-th pending request to the Python backend has answered
pythonResolves(k, success) ==
    /\ pythonCalls' = RemoveAt(pythonCalls, k)
    /\ apiOp' = [name |-> "python", call |-> pythonCalls[k],
                 outcome |-> IF success THEN "success" ELSE "failure"]
    /\ UNCHANGED <<cloudinaryEnabled, cloudinaryFallbackCount, cloudinaryCalls,
                   apiCalls, notCloud>>

PythonResolves ==
    \E k \in 1..Len(pythonCalls), success \in BOOLEAN : pythonResolves(k, success)

\* getProcessingInfo().usingPythonFallback
usingPythonFallback == cloudinaryFallbackCount >= maxCloudinaryAttempts

InitCloud ==
    /\ OnlyCloud
    /\ cloudinaryEnabled \in BOOLEAN
    /\ cloudinaryFallbackCount = 0
    /\ cloudinaryCalls = <<>>
    /\ pythonCalls = <<>>
    /\ apiCalls = 0
    /\ apiOp = NoApiOp

NextCloud ==
    \/ uploadPhoto
    \/ ProcessPhoto
    \/ CloudinaryResolves
    \/ PythonResolves

SpecCloud == InitCloud /\ [][NextCloud]_vars

\* C30: cloudinaryFallbackCount never exceeds maxCloudinaryAttempts, and once
\* it has reached it (usingPythonFallback) the counter never changes again
\* and no call is sent to Cloudinary.
C30_FallbackLatch ==
    /\ [](cloudinaryFallbackCount <= maxCloudinaryAttempts)
    /\ [][ usingPythonFallback =>
             /\ cloudinaryFallbackCount' = cloudinaryFallbackCount
             /\ Len(cloudinaryCalls') <= Len(cloudinaryCalls) ]_vars

====
